---- MODULE Spec2Model ----
(***************************************************************************)
(* Model of the question-to-answer pipeline of the complaints chatbot:     *)
(*   backend/main.py      chat_endpoint, ChatResponse                      *)
(*   backend/sql_agent.py generate_sql, generate_chart_query,              *)
(*                        format_response, _guess_visualization, chat,     *)
(*                        _extract_count_query                             *)
(*   backend/database.py  execute_query (the connection is opened once,   *)
(*                        by init_database at startup)                     *)
(* SQL texts, model replies and answer texts are strings; the regular      *)
(* expressions and substring tests of the source are evaluated character   *)
(* by character.  The completion service and the analytical store are the  *)
(* environment: each call draws its outcome from a bounded set.            *)
(***************************************************************************)
EXTENDS Integers, Sequences, FiniteSets, TLC

(***************************************************************************)
(* Python values.  Optional values: None is <<>>, a present value v is     *)
(* <<v>>.                                                                  *)
(***************************************************************************)
None == <<>>

Some(v) == <<v>>

Min(a, b) == IF a <= b THEN a ELSE b

(***************************************************************************)
(* Characters and the str methods the pipeline uses.                       *)
(***************************************************************************)
LowerLetters == {"a", "b", "c", "d", "e", "f", "g", "h", "i", "j", "k", "l", "m",
                 "n", "o", "p", "q", "r", "s", "t", "u", "v", "w", "x", "y", "z"}

UpperLetters == {"A", "B", "C", "D", "E", "F", "G", "H", "I", "J", "K", "L", "M",
                 "N", "O", "P", "Q", "R", "S", "T", "U", "V", "W", "X", "Y", "Z"}

Digits == {"0", "1", "2", "3", "4", "5", "6", "7", "8", "9"}

IsSpace(c) == c \in {" ", "\n", "\t"}

IsDigit(c) == c \in Digits

IsAlpha(c) == c \in LowerLetters \/ c \in UpperLetters

\* \w of the re module, on the ASCII alphabet of the model
IsWordCh(c) == IsAlpha(c) \/ IsDigit(c) \/ c = "_"

UpperCh(c) ==
    CASE c = "a" -> "A" [] c = "b" -> "B" [] c = "c" -> "C" [] c = "d" -> "D"
      [] c = "e" -> "E" [] c = "f" -> "F" [] c = "g" -> "G" [] c = "h" -> "H"
      [] c = "i" -> "I" [] c = "j" -> "J" [] c = "k" -> "K" [] c = "l" -> "L"
      [] c = "m" -> "M" [] c = "n" -> "N" [] c = "o" -> "O" [] c = "p" -> "P"
      [] c = "q" -> "Q" [] c = "r" -> "R" [] c = "s" -> "S" [] c = "t" -> "T"
      [] c = "u" -> "U" [] c = "v" -> "V" [] c = "w" -> "W" [] c = "x" -> "X"
      [] c = "y" -> "Y" [] c = "z" -> "Z" [] OTHER -> c

LowerCh(c) ==
    CASE c = "A" -> "a" [] c = "B" -> "b" [] c = "C" -> "c" [] c = "D" -> "d"
      [] c = "E" -> "e" [] c = "F" -> "f" [] c = "G" -> "g" [] c = "H" -> "h"
      [] c = "I" -> "i" [] c = "J" -> "j" [] c = "K" -> "k" [] c = "L" -> "l"
      [] c = "M" -> "m" [] c = "N" -> "n" [] c = "O" -> "o" [] c = "P" -> "p"
      [] c = "Q" -> "q" [] c = "R" -> "r" [] c = "S" -> "s" [] c = "T" -> "t"
      [] c = "U" -> "u" [] c = "V" -> "v" [] c = "W" -> "w" [] c = "X" -> "x"
      [] c = "Y" -> "y" [] c = "Z" -> "z" [] OTHER -> c

Ch(s, i) == SubSeq(s, i, i)

\* The concatenation of the strings piece[lo], ..., piece[hi].  A text is rebuilt
\* from one piece per position; the halving keeps the evaluation shallow.
RECURSIVE Cat(_, _, _)
Cat(piece, lo, hi) ==
    IF lo > hi THEN ""
    ELSE IF lo = hi THEN piece[lo]
    ELSE LET mid == (lo + hi) \div 2
         IN  Cat(piece, lo, mid) \o Cat(piece, mid + 1, hi)

\* str.upper() and str.lower()
Upper(s) == Cat([i \in 1..Len(s) |-> UpperCh(Ch(s, i))], 1, Len(s))

Lower(s) == Cat([i \in 1..Len(s) |-> LowerCh(Ch(s, i))], 1, Len(s))

\* s[i-1:i-1+len(p)] == p   (positions are 1-based in the model)
MatchAt(s, i, p) ==
    /\ i >= 1
    /\ i + Len(p) - 1 <= Len(s)
    /\ SubSeq(s, i, i + Len(p) - 1) = p

\* the same under re.IGNORECASE; P is written in upper case
MatchAtCI(s, i, P) ==
    /\ i >= 1
    /\ i + Len(P) - 1 <= Len(s)
    /\ Upper(SubSeq(s, i, i + Len(P) - 1)) = P

StartsWith(s, p) == MatchAt(s, 1, p)

EndsWith(s, p) == MatchAt(s, Len(s) - Len(p) + 1, p)

\* p in s
Contains(s, p) == \E i \in 1..(Len(s) - Len(p) + 1) : MatchAt(s, i, p)

\* s.index(p), 1-based; 0 when p does not occur
IndexOf(s, p) ==
    IF Contains(s, p)
    THEN CHOOSE i \in 1..(Len(s) - Len(p) + 1) :
            /\ MatchAt(s, i, p)
            /\ \A j \in 1..(i - 1) : ~MatchAt(s, j, p)
    ELSE 0

\* first position >= i that holds no whitespace (Len(s) + 1 when there is none)
RECURSIVE SkipSpaces(_, _)
SkipSpaces(s, i) ==
    IF i <= Len(s) /\ IsSpace(Ch(s, i)) THEN SkipSpaces(s, i + 1) ELSE i

\* last position <= i that holds no whitespace (0 when there is none)
RECURSIVE SkipSpacesBack(_, _)
SkipSpacesBack(s, i) ==
    IF i >= 1 /\ IsSpace(Ch(s, i)) THEN SkipSpacesBack(s, i - 1) ELSE i

\* str.strip()
Strip(s) ==
    LET a == SkipSpaces(s, 1)
        b == SkipSpacesBack(s, Len(s))
    IN  IF a > b THEN "" ELSE SubSeq(s, a, b)

\* str.rstrip(c) for a single character c
RECURSIVE RStripCh(_, _)
RStripCh(s, c) ==
    IF s # "" /\ Ch(s, Len(s)) = c THEN RStripCh(SubSeq(s, 1, Len(s) - 1), c) ELSE s

\* s[:n]
Prefix(s, n) == SubSeq(s, 1, Min(n, Len(s)))

\* s[i-1:]
Suffix(s, i) == IF i > Len(s) THEN "" ELSE SubSeq(s, i, Len(s))

DigitVal(c) ==
    CASE c = "0" -> 0 [] c = "1" -> 1 [] c = "2" -> 2 [] c = "3" -> 3 [] c = "4" -> 4
      [] c = "5" -> 5 [] c = "6" -> 6 [] c = "7" -> 7 [] c = "8" -> 8 [] c = "9" -> 9

\* int(s) for a string of decimal digits
RECURSIVE ParseInt(_)
ParseInt(s) ==
    IF s = "" THEN 0
    ELSE 10 * ParseInt(SubSeq(s, 1, Len(s) - 1)) + DigitVal(Ch(s, Len(s)))

\* end of the maximal run of digits that starts at i (i - 1 when there is none)
RECURSIVE DigitRunEnd(_, _)
DigitRunEnd(s, i) ==
    IF i <= Len(s) /\ IsDigit(Ch(s, i)) THEN DigitRunEnd(s, i + 1) ELSE i - 1

\* end of the maximal run of \w characters that starts at i
RECURSIVE WordRunEnd(_, _)
WordRunEnd(s, i) ==
    IF i <= Len(s) /\ IsWordCh(Ch(s, i)) THEN WordRunEnd(s, i + 1) ELSE i - 1

(***************************************************************************)
(* generate_sql: the allow-list and the column-name repair.                *)
(***************************************************************************)
\* VALID_COLUMNS, in the order the literal lists them
ValidColumnsListed ==
    << "nr_reclamatie", "raion", "pm", "observatii", "nume_client",
       "nr_comanda", "id_comanda", "grup_vanzare", "furnizor",
       "echipa_livrare", "data_factura", "data_comanda", "data_reclamatie",
       "magazin", "articol_cod", "id_client", "articol_denumire",
       "modalitate_rezolvare", "motiv_reclamatie", "descriere",
       "mod_livrare", "furnizor_ext", "responsabil_comanda",
       "cantitate", "valoare" >>

Reverse(q) == [i \in 1..Len(q) |-> q[Len(q) + 1 - i]]

\* VALID_COLUMNS is a set of str: its iteration order is fixed within a process
\* and differs between processes (string hashing is seeded per process).  An
\* order is a sequence holding every column once.
ColumnOrders == {ValidColumnsListed, Reverse(ValidColumnsListed)}

VALID_COLUMNS == {ValidColumnsListed[i] : i \in 1..Len(ValidColumnsListed)}

name_map ==
    { <<"grupa_mediu_vanzare", "grup_vanzare">>,
      <<"grupa_mediu", "grup_vanzare">>,
      <<"mediu_vanzare", "grup_vanzare">>,
      <<"grup_mediu", "grup_vanzare">>,
      <<"data_reclam", "data_reclamatie">>,
      <<"data_rec", "data_reclamatie">>,
      <<"nr_reclam", "nr_reclamatie">>,
      <<"motiv_reclam", "motiv_reclamatie">>,
      <<"articol_den", "articol_denumire">>,
      <<"mod_rezolvare", "modalitate_rezolvare">>,
      <<"responsabil", "responsabil_comanda">>,
      <<"echipa", "echipa_livrare">> }

\* fix_column_name(match) for the matched word, under iteration order `order`
fix_column_name(word, order) ==
    LET lw == Lower(word)
        hits == {k \in 1..Len(order) : StartsWith(order[k], lw) /\ Len(word) >= 4}
    IN  IF lw \in VALID_COLUMNS THEN word
        ELSE IF hits # {} THEN order[CHOOSE k \in hits : \A j \in hits : k <= j]
        ELSE IF \E p \in name_map : p[1] = lw
             THEN (CHOOSE p \in name_map : p[1] = lw)[2]
        ELSE word

\* whether a maximal run of \w characters is a match of \b[a-z][a-z_]+[a-z]\b
\* under re.IGNORECASE: letters and underscores only, a letter at both ends,
\* three characters or more.  (No part of a run can match: \b needs a
\* non-word character, or an end of the text, on either side.)
IsColumnLike(w) ==
    /\ Len(w) >= 3
    /\ IsAlpha(Ch(w, 1))
    /\ IsAlpha(Ch(w, Len(w)))
    /\ \A i \in 1..Len(w) : IsAlpha(Ch(w, i)) \/ Ch(w, i) = "_"

\* re.sub(r'\b[a-z][a-z_]+[a-z]\b', fix_column_name, sql, flags=re.IGNORECASE):
\* every maximal run of \w characters that matches is replaced, everything else
\* is kept
FixColumns(s, order) ==
    LET piece ==
          [i \in 1..Len(s) |->
             IF ~IsWordCh(Ch(s, i)) THEN Ch(s, i)
             ELSE IF i > 1 /\ IsWordCh(Ch(s, i - 1)) THEN ""
             ELSE LET w == SubSeq(s, i, WordRunEnd(s, i))
                  IN  IF IsColumnLike(w) THEN fix_column_name(w, order) ELSE w]
    IN  Cat(piece, 1, Len(s))

(***************************************************************************)
(* generate_sql: the DESC keyword repair.                                  *)
(*   (ORDER\s+BY\s+[\w\(\)]+\s+)descriere(\s+LIMIT|\s*$)   re.IGNORECASE   *)
(***************************************************************************)
\* end of the maximal run of [\w\(\)] characters that starts at i
RECURSIVE SortKeyEnd(_, _)
SortKeyEnd(s, i) ==
    IF i <= Len(s) /\ (IsWordCh(Ch(s, i)) \/ Ch(s, i) \in {"(", ")"})
    THEN SortKeyEnd(s, i + 1)
    ELSE i - 1

\* The match of the pattern that starts at i, if any: d is the position of
\* descriere, e the last position of the match.  Each greedy run has to be
\* taken whole, since the piece that follows it cannot start with a character
\* of the run.
DescMatch(s, i) ==
    LET p1 == i + 5                      \* after ORDER
        p2 == SkipSpaces(s, p1)          \* BY
        p3 == p2 + 2
        p4 == SkipSpaces(s, p3)          \* the sort key
        p5 == SortKeyEnd(s, p4) + 1
        p6 == SkipSpaces(s, p5)          \* descriere
        p7 == p6 + 9
        p8 == SkipSpaces(s, p7)          \* LIMIT, or the end
        head == /\ MatchAtCI(s, i, "ORDER")
                /\ p2 > p1
                /\ MatchAtCI(s, p2, "BY")
                /\ p4 > p3
                /\ p5 > p4
                /\ p6 > p5
                /\ MatchAtCI(s, p6, "DESCRIERE")
    IN  IF head /\ p8 > p7 /\ MatchAtCI(s, p8, "LIMIT")
        THEN [ok |-> TRUE, d |-> p6, e |-> p8 + 4]
        ELSE IF head /\ p8 > Len(s)
        THEN [ok |-> TRUE, d |-> p6, e |-> Len(s)]
        ELSE [ok |-> FALSE, d |-> 0, e |-> 0]

\* re.sub(pattern, r'\1DESC\2', sql, flags=re.IGNORECASE): in every match the
\* nine characters of descriere become DESC and the groups are kept.  (Two
\* matches never overlap: a match holds ORDER BY once, at its start.)
FixDesc(s) ==
    LET at == {DescMatch(s, i).d : i \in {j \in 1..Len(s) : DescMatch(s, j).ok}}
        piece ==
          [i \in 1..Len(s) |->
             IF i \in at THEN "DESC"
             ELSE IF \E d \in at : d < i /\ i <= d + 8 THEN ""
             ELSE Ch(s, i)]
    IN  Cat(piece, 1, Len(s))

(***************************************************************************)
(* generate_sql: the missing-FROM repair.                                  *)
(***************************************************************************)
FromKeywords == <<"WHERE", "GROUP BY", "ORDER BY", "LIMIT">>

\* for keyword in [...]: if keyword in sql_upper: insert before it; break
\* else: append at the end
InjectFrom(s) ==
    LET up == Upper(s)
        found == {k \in 1..Len(FromKeywords) : Contains(up, FromKeywords[k])}
    IN  IF ~Contains(up, "FROM") /\ StartsWith(up, "SELECT")
        THEN IF found # {}
             THEN LET k == CHOOSE x \in found : \A y \in found : x <= y
                      idx == IndexOf(up, FromKeywords[k])
                  IN  SubSeq(s, 1, idx - 1) \o "FROM complaints " \o Suffix(s, idx)
             ELSE RStripCh(s, ";") \o " FROM complaints"
        ELSE s

(***************************************************************************)
(* generate_sql: the row cap.                                              *)
(***************************************************************************)
RowCap == 150

AggregateMarkers == {"COUNT(", "SUM(", "AVG(", "MIN(", "MAX(", "GROUP BY"}

\* whether LIMIT\s+\d+ (re.IGNORECASE) matches at position i
LimitAt(s, i) ==
    /\ MatchAtCI(s, i, "LIMIT")
    /\ SkipSpaces(s, i + 5) > i + 5
    /\ DigitRunEnd(s, SkipSpaces(s, i + 5)) >= SkipSpaces(s, i + 5)

\* the last position of the match of LIMIT\s+\d+ that starts at i
LimitEnd(s, i) == DigitRunEnd(s, SkipSpaces(s, i + 5))

\* int(m.group(1)) for the match that starts at i
LimitValue(s, i) == ParseInt(SubSeq(s, SkipSpaces(s, i + 5), LimitEnd(s, i)))

\* the positions at which LIMIT\s+\d+ matches
LimitPositions(s) == {i \in 1..Len(s) : LimitAt(s, i)}

\* re.sub(r'LIMIT\s+\d+', 'LIMIT 150', sql, flags=re.IGNORECASE)
RaiseLimits(s) ==
    LET at == LimitPositions(s)
        piece ==
          [i \in 1..Len(s) |->
             IF i \in at THEN "LIMIT 150"
             ELSE IF \E j \in at : j < i /\ i <= LimitEnd(s, j) THEN ""
             ELSE Ch(s, i)]
    IN  Cat(piece, 1, Len(s))

\* lines 280-291: the value of the first LIMIT decides whether every LIMIT is
\* rewritten; a LIMIT is appended when the text has neither an aggregate marker
\* nor the word LIMIT
EnforceRowCap(s) ==
    LET up == Upper(s)
        has_aggregation == \E fn \in AggregateMarkers : Contains(up, fn)
        has_limit == Contains(up, "LIMIT")
        at == LimitPositions(s)
        first == CHOOSE i \in at : \A j \in at : i <= j
        raised == IF at # {} /\ LimitValue(s, first) < RowCap
                  THEN RaiseLimits(s)
                  ELSE s
    IN  IF ~has_aggregation /\ ~has_limit
        THEN RStripCh(raised, ";") \o " LIMIT 150"
        ELSE raised

(***************************************************************************)
(* generate_sql                                                            *)
(***************************************************************************)
\* the character of a markdown code fence (written with its closing quote: the
\* parser reads a lone grave accent as the start of a quotation)
Backtick == SubSeq("`'", 1, 1)

Fence == Backtick \o Backtick \o Backtick

\* lines 222-226: the code fences around the completion
StripFences(text) ==
    LET s0 == Strip(text)
        s1 == IF StartsWith(s0, Fence \o "sql") THEN Suffix(s0, SkipSpaces(s0, 7)) ELSE s0
        s2 == IF StartsWith(s1, Fence) THEN Suffix(s1, SkipSpaces(s1, 4)) ELSE s1
        s3 == IF EndsWith(s2, Fence)
              THEN SubSeq(s2, 1, SkipSpacesBack(s2, Len(s2) - 3))
              ELSE s2
    IN  Strip(s3)

\* line 229 with SELECT as the only accepted prefix
IsSelect(s) == StartsWith(Upper(s), "SELECT")

\* line 229
IsSelectOrWith(s) == StartsWith(Upper(s), "SELECT") \/ StartsWith(Upper(s), "WITH")

\* lines 232-291: the repairs, in the order the code applies them
CorrectSql(s, order) == EnforceRowCap(InjectFrom(FixDesc(FixColumns(s, order))))

\* A completion call either raises, or returns a reply whose text is None
\* (a blocked or empty reply), or returns a text.
Raised(msg) == [kind |-> "raise", text |-> msg]

NoText == [kind |-> "none", text |-> ""]

Reply(text) == [kind |-> "text", text |-> text]

\* generate_sql(question) given the outcome of the completion call: <<sql, error>>
generate_sql(reply, order) ==
    IF reply.kind = "raise"
    THEN <<"", Some("Error generating SQL: " \o reply.text)>>
    ELSE IF reply.kind = "none"
    THEN <<"", Some("Error generating SQL: 'NoneType' object has no attribute 'strip'")>>
    ELSE LET sql == StripFences(reply.text)
         IN  IF ~IsSelectOrWith(sql)
             THEN <<"", Some("Invalid SQL generated: " \o Prefix(sql, 100))>>
             ELSE <<CorrectSql(sql, order), None>>

(***************************************************************************)
(* Python values that travel through the pipeline.  A value is tagged with *)
(* its type: str, int, null (None), list, dict.  A dict is a function from *)
(* its keys; a result row is the ordered dict that execute_query builds,   *)
(* a sequence of <<column, value>> pairs.  String literals of the source   *)
(* are written in ASCII here (a for a-breve, * for the bullet).            *)
(***************************************************************************)
JStr(x) == [t |-> "str", v |-> x]

JInt(n) == [t |-> "int", v |-> n]

JNull == [t |-> "null", v |-> 0]

JList(q) == [t |-> "list", v |-> q]

JDict(d) == [t |-> "dict", v |-> d]

\* x == y on tagged values
Same(x, y) == x.t = y.t /\ x.v = y.v

\* str(x)
PyStr(x) ==
    CASE x.t = "str" -> x.v
      [] x.t = "int" -> ToString(x.v)
      [] x.t = "null" -> "None"

\* bool(x)
Truthy(x) ==
    CASE x.t = "str" -> x.v # ""
      [] x.t = "int" -> x.v # 0
      [] x.t = "null" -> FALSE
      [] x.t = "list" -> Len(x.v) > 0
      [] x.t = "dict" -> DOMAIN x.v # {}

\* isinstance(x, (int, float))
IsNumber(x) == x.t = "int"

\* x == "literal"
IsStr(x, lit) == x.t = "str" /\ x.v = lit

Has(d, k) == k \in DOMAIN d

\* d.get(k), with None as the default
Get(d, k) == IF k \in DOMAIN d THEN d[k] ELSE JNull

\* d[k] = v
Put(d, k, v) == [x \in DOMAIN d \cup {k} |-> IF x = k THEN v ELSE d[x]]

\* list(r.keys())
RowKeys(r) == [i \in 1..Len(r) |-> r[i][1]]

\* list(r.values())[0]
FirstValue(r) == r[1][2]

\* r.get(k)
RowGet(r, k) ==
    IF \E i \in 1..Len(r) : r[i][1] = k
    THEN r[CHOOSE i \in 1..Len(r) : r[i][1] = k][2]
    ELSE JNull

\* s.replace(pat, rep), for a pattern that cannot overlap itself
StrReplace(s, pat, rep) ==
    LET at == {i \in 1..Len(s) : MatchAt(s, i, pat)}
        piece ==
          [i \in 1..Len(s) |->
             IF i \in at THEN rep
             ELSE IF \E j \in at : j < i /\ i <= j + Len(pat) - 1 THEN ""
             ELSE Ch(s, i)]
    IN  Cat(piece, 1, Len(s))

\* "\n".join(lines)
JoinLines(lines) ==
    Cat([i \in 1..Len(lines) |-> IF i = 1 THEN lines[i] ELSE "\n" \o lines[i]],
        1, Len(lines))

(***************************************************************************)
(* _guess_visualization                                                    *)
(***************************************************************************)
detail_cols ==
    {"nr_reclamatie", "observatii", "observatie", "detalii", "descriere",
     "adresa", "telefon", "email", "client", "nume_client",
     "id", "nr", "numar", "cod"}

time_cols == {"luna", "month", "an", "year", "data", "zi", "saptamana", "trimestru"}

numeric_cols ==
    {"numar", "numar_reclamatii", "total", "count", "valoare",
     "valoare_totala", "suma", "medie", "procent"}

ColsLower(columns) == {Lower(columns[i]) : i \in 1..Len(columns)}

_guess_visualization(results, columns) ==
    LET cols_lower == ColsLower(columns)
        non_date_cols == cols_lower \ {"data_reclamatie", "data"}
        has_time == \E i \in 1..Len(columns) : Lower(columns[i]) \in time_cols
        has_numeric == \E i \in 1..Len(columns) : Lower(columns[i]) \in numeric_cols
    IN  IF Len(results) = 0 THEN "none"
        ELSE IF Len(results) = 1 /\ Len(columns) <= 2 THEN "none"
        ELSE IF "observatii" \in cols_lower \/ "observatie" \in cols_lower THEN "none"
        ELSE IF cols_lower \subseteq
                  (detail_cols \cup {"data_reclamatie", "data", "magazin"}) THEN "none"
        ELSE IF non_date_cols # {} /\ non_date_cols \subseteq detail_cols THEN "none"
        ELSE IF Len(columns) = 1 /\ cols_lower \cap detail_cols # {} THEN "none"
        ELSE IF /\ ~has_numeric
                /\ Len(columns) >= 2
                /\ ~IsNumber(RowGet(results[1], columns[2]))
             THEN (IF Len(results) <= 15 THEN "table" ELSE "none")
        ELSE IF has_time /\ Len(results) > 2 THEN "bar_chart"
        ELSE IF Len(results) <= 8 /\ Len(columns) = 2
             THEN (IF Len(results) <= 6 THEN "pie_chart" ELSE "bar_chart")
        ELSE "bar_chart"

(***************************************************************************)
(* format_response.  The reply of the formatting completion is given by    *)
(* the parse layer that succeeds on it and by what that layer extracts:    *)
(*   raise       the completion call raises                                *)
(*   none        the reply carries no text (response.text is None)         *)
(*   json        json.loads succeeds; value is the parsed JSON value       *)
(*   embedded    json.loads fails, the object pattern finds an object that *)
(*               parses; value is that object                              *)
(*   text_field  only the "text": "..." pattern matches; text is its group *)
(*   prose       no pattern matches; text is the non-empty clean_text      *)
(*   blank       no pattern matches and clean_text is empty                *)
(***************************************************************************)
FRaise(msg) == [kind |-> "raise", text |-> msg, value |-> JNull]

FNone == [kind |-> "none", text |-> "", value |-> JNull]

FJson(value) == [kind |-> "json", text |-> "", value |-> value]

FEmbedded(d) == [kind |-> "embedded", text |-> "", value |-> JDict(d)]

FTextField(text) == [kind |-> "text_field", text |-> text, value |-> JNull]

FProse(text) == [kind |-> "prose", text |-> text, value |-> JNull]

FBlank == [kind |-> "blank", text |-> "", value |-> JNull]

\* the outcome of a block of statements: a value, or the exception it raises
Ok(x) == [ok |-> TRUE, value |-> x, err |-> ""]

Fault(msg) == [ok |-> FALSE, value |-> JNull, err |-> msg]

\* lines 415-470: the value of `parsed` after the layered parse
ParseFormatReply(reply, results, columns) ==
    LET guessed == [text |-> JStr(reply.text),
                    visualization |-> JStr(_guess_visualization(results, columns))]
    IN  CASE reply.kind = "raise" -> Fault(reply.text)
          [] reply.kind = "none" -> Fault("'NoneType' object has no attribute 'strip'")
          [] reply.kind \in {"json", "embedded"} -> Ok(reply.value)
          [] reply.kind \in {"text_field", "prose"} -> Ok(JDict(guessed))
          [] reply.kind = "blank" ->
               Ok(JDict([guessed EXCEPT !.text =
                           JStr("Am gasit " \o ToString(Len(results)) \o " rezultate.")]))

\* next((k for k in keys if sub in k.lower()), None): its position, 0 for None
FirstKeyWith(keys, sub) ==
    LET hits == {i \in 1..Len(keys) : Contains(Lower(keys[i]), sub)}
    IN  IF hits = {} THEN 0 ELSE CHOOSE i \in hits : \A j \in hits : i <= j

\* lines 505-516: the bullet of one row
DetailLine(r, obs_key, mag_key) ==
    LET val == PyStr(FirstValue(r))
        mag == IF mag_key # 0 /\ Truthy(r[mag_key][2])
               THEN " (" \o PyStr(r[mag_key][2]) \o ")"
               ELSE ""
        stripped == IF obs_key # 0
                    THEN Strip(StrReplace(PyStr(r[obs_key][2]), "\n", " "))
                    ELSE ""
        cut == IF Len(stripped) > 150 THEN SubSeq(stripped, 1, 147) \o "..." ELSE stripped
        obs == IF obs_key # 0 /\ Truthy(r[obs_key][2])
               THEN " - " \o (IF cut = "" THEN "(detalii incomplete)" ELSE cut)
               ELSE ""
    IN  "* " \o val \o mag \o obs

\* lines 498-521: the list appended to the text
DetailList(results) ==
    LET keys == RowKeys(results[1])
        obs_key == FirstKeyWith(keys, "observ")
        mag_key == FirstKeyWith(keys, "magazin")
        lines == [i \in 1..Len(results) |-> DetailLine(results[i], obs_key, mag_key)]
    IN  "\n\n**Lista detaliata (" \o ToString(Len(results)) \o " inregistrari):**\n"
          \o JoinLines(lines)

\* lines 481-484
IsDetail(columns) == ColsLower(columns) \cap detail_cols # {}

\* lines 472-474
CleanText(p) ==
    IF ~Has(p, "text") THEN Ok(p)
    ELSE IF p["text"].t # "str"
    THEN Fault("object has no attribute 'replace'")
    ELSE Ok(Put(p, "text", JStr(StrReplace(p["text"].v, "\\\"", "\""))))

\* lines 476-478 alone, without the forcing of lines 486-487
OverrideVisualizationTableOnly(p, results, columns) ==
    IF IsStr(Get(p, "visualization"), "table") /\ Len(results) > 15
    THEN Put(p, "visualization", JStr(_guess_visualization(results, columns)))
    ELSE p

\* lines 480-487 alone, without the override of lines 476-478
OverrideVisualizationDetailOnly(p, results, columns) ==
    IF /\ IsDetail(columns)
       /\ ~IsStr(Get(p, "visualization"), "none")
       /\ ~IsStr(Get(p, "visualization"), "table")
    THEN Put(p, "visualization", JStr("none"))
    ELSE p

\* lines 476-487
OverrideVisualization(p, results, columns) ==
    LET p1 == IF IsStr(Get(p, "visualization"), "table") /\ Len(results) > 15
              THEN Put(p, "visualization", JStr(_guess_visualization(results, columns)))
              ELSE p
    IN  IF /\ IsDetail(columns)
           /\ ~IsStr(Get(p1, "visualization"), "none")
           /\ ~IsStr(Get(p1, "visualization"), "table")
        THEN Put(p1, "visualization", JStr("none"))
        ELSE p1

\* lines 489-524
EnsureValuesInText(p, results, columns) ==
    LET text == IF Has(p, "text") THEN p["text"].v ELSE ""
        missing == {i \in 1..Len(results) : ~Contains(text, PyStr(FirstValue(results[i])))}
    IN  IF /\ IsDetail(columns)
           /\ IsStr(Get(p, "visualization"), "none")
           /\ Len(results) <= 60
        THEN IF missing # {} /\ ~Has(p, "text")
             THEN Fault("'text'")
             ELSE LET p1 == IF missing # {}
                            THEN Put(p, "text", JStr(text \o DetailList(results)))
                            ELSE p
                  IN  Ok(Put(Put(p1, "data", JList(<<>>)), "columns", JList(<<>>)))
        ELSE Ok(p)

\* lines 526-534
AttachData(p, sql, results, columns) ==
    LET p1 == IF Has(p, "data") THEN p ELSE Put(p, "data", JList(results))
        p2 == IF Has(p1, "columns") THEN p1 ELSE Put(p1, "columns", JList(columns))
    IN  Put(Put(p2, "sql", JStr(sql)), "row_count", JInt(Len(results)))

\* the except clause of lines 536-544 without the raw results
FormatFallbackNoData(err, sql, results, columns) ==
    [text |-> JStr("Eroare la formatarea raspunsului: " \o err),
     visualization |-> JStr("none"),
     data |-> JList(<<>>),
     columns |-> JList(<<>>),
     sql |-> JStr(sql),
     row_count |-> JInt(Len(results))]

\* lines 536-544
FormatFallback(err, sql, results, columns) ==
    [text |-> JStr("Eroare la formatarea raspunsului: " \o err),
     visualization |-> JStr("none"),
     data |-> JList(results),
     columns |-> JList(columns),
     sql |-> JStr(sql),
     row_count |-> JInt(Len(results))]

\* the try block of format_response: the dict it returns, or the fault
FormatTry(sql, results, columns, reply) ==
    LET parsed == ParseFormatReply(reply, results, columns)
        cleaned == IF ~parsed.ok THEN parsed
                   ELSE IF parsed.value.t # "dict"
                   THEN Fault("'" \o parsed.value.t \o "' object has no attribute 'get'")
                   ELSE CleanText(parsed.value.v)
        ensured == IF ~cleaned.ok THEN cleaned
                   ELSE EnsureValuesInText(
                          OverrideVisualization(cleaned.value, results, columns),
                          results, columns)
    IN  IF ~ensured.ok THEN ensured
        ELSE Ok(AttachData(ensured.value, sql, results, columns))

\* format_response(question, sql, results, columns, total_count): the question
\* and total_count only enter the prompt
format_response(sql, results, columns, reply) ==
    LET tried == FormatTry(sql, results, columns, reply)
    IN  IF tried.ok THEN tried.value
        ELSE FormatFallback(tried.err, sql, results, columns)

(***************************************************************************)
(* _extract_count_query                                                    *)
(***************************************************************************)
\* re.sub(r'SELECT\s+.*?\s+FROM', 'SELECT COUNT(*) as total FROM', sql, count=1,
\*        flags=re.IGNORECASE | re.DOTALL)
\* A match starts at a SELECT that is followed by whitespace and ends at the
\* first FROM that has whitespace before it, past the whitespace of the SELECT.
CountProjection(s) ==
    LET ends(i) == {f \in (i + 8)..Len(s) : MatchAtCI(s, f, "FROM") /\ IsSpace(Ch(s, f - 1))}
        starts == {i \in 1..Len(s) :
                     /\ MatchAtCI(s, i, "SELECT")
                     /\ i + 6 <= Len(s)
                     /\ IsSpace(Ch(s, i + 6))
                     /\ ends(i) # {}}
        i0 == CHOOSE i \in starts : \A j \in starts : i <= j
        f0 == CHOOSE f \in ends(i0) : \A g \in ends(i0) : f <= g
    IN  IF starts = {} THEN s
        ELSE SubSeq(s, 1, i0 - 1) \o "SELECT COUNT(*) as total FROM" \o Suffix(s, f0 + 4)

\* the positions of the line breaks of s from position i on
NewlinesFrom(s, i) == {n \in i..Len(s) : Ch(s, n) = "\n"}

\* re.sub(r'\s+ORDER\s+BY\s+.*$', '', count_sql, flags=re.IGNORECASE)
\* . stops at a line break and $ holds at the end of the text or before a
\* final line break, which the substitution then leaves in place.
StripOrderBy(s) ==
    LET afterBy(i) == SkipSpaces(s, SkipSpaces(s, SkipSpaces(s, i) + 5) + 2)
        ok(i) ==
          LET k == SkipSpaces(s, i)
              q == SkipSpaces(s, k + 5)
              r == SkipSpaces(s, q + 2)
          IN  /\ IsSpace(Ch(s, i))
              /\ MatchAtCI(s, k, "ORDER")
              /\ q > k + 5
              /\ MatchAtCI(s, q, "BY")
              /\ r > q + 2
              /\ NewlinesFrom(s, r) \subseteq {Len(s)}
        starts == {i \in 1..Len(s) : ok(i)}
        i0 == CHOOSE i \in starts : \A j \in starts : i <= j
    IN  IF starts = {} THEN s
        ELSE SubSeq(s, 1, i0 - 1)
               \o (IF NewlinesFrom(s, afterBy(i0)) # {} THEN "\n" ELSE "")

\* re.sub(r'\s+LIMIT\s+\d+', '', count_sql, flags=re.IGNORECASE)
StripLimits(s) ==
    LET starts == {i \in 1..Len(s) :
                     /\ IsSpace(Ch(s, i))
                     /\ (i = 1 \/ ~IsSpace(Ch(s, i - 1)))
                     /\ LimitAt(s, SkipSpaces(s, i))}
        piece ==
          [i \in 1..Len(s) |->
             IF \E j \in starts : j <= i /\ i <= LimitEnd(s, SkipSpaces(s, j)) THEN ""
             ELSE Ch(s, i)]
    IN  Cat(piece, 1, Len(s))

\* the lookahead (?=\s+HAVING|\s+ORDER|\s+LIMIT|$) at position p
GroupByStop(s, p) ==
    \/ /\ p <= Len(s)
       /\ IsSpace(Ch(s, p))
       /\ \E kw \in {"HAVING", "ORDER", "LIMIT"} : MatchAtCI(s, SkipSpaces(s, p), kw)
    \/ p = Len(s) + 1
    \/ p = Len(s) /\ Ch(s, p) = "\n"

\* The match of \s+GROUP\s+BY\s+.*?(?=...) that starts at i, if any: e is its
\* last position.  The whitespace after BY is taken as long as a match allows,
\* then the lazy .*? as short as the lookahead allows.
GroupByMatch(s, i) ==
    LET k == SkipSpaces(s, i)
        q == SkipSpaces(s, k + 5)
        r0 == q + 2
        r == SkipSpaces(s, r0)
        head == /\ IsSpace(Ch(s, i))
                /\ MatchAtCI(s, k, "GROUP")
                /\ q > k + 5
                /\ MatchAtCI(s, q, "BY")
                /\ r > r0
        stops(a) == {e \in (a - 1)..Len(s) :
                       /\ \A n \in a..e : Ch(s, n) # "\n"
                       /\ GroupByStop(s, e + 1)}
        takes == {a \in (r0 + 1)..r : stops(a) # {}}
        a0 == CHOOSE a \in takes : \A b \in takes : a >= b
    IN  IF head /\ takes # {}
        THEN [ok |-> TRUE, e |-> CHOOSE e \in stops(a0) : \A g \in stops(a0) : e <= g]
        ELSE [ok |-> FALSE, e |-> 0]

\* re.sub(r'\s+GROUP\s+BY\s+.*?(?=\s+HAVING|\s+ORDER|\s+LIMIT|$)', '', count_sql,
\*        flags=re.IGNORECASE), scanning from position `from`
RECURSIVE StripGroupByFrom(_, _)
StripGroupByFrom(s, from) ==
    LET starts == {i \in from..Len(s) : GroupByMatch(s, i).ok}
        i0 == CHOOSE i \in starts : \A j \in starts : i <= j
    IN  IF starts = {} THEN Suffix(s, from)
        ELSE SubSeq(s, from, i0 - 1) \o StripGroupByFrom(s, GroupByMatch(s, i0).e + 1)

\* _extract_count_query(sql): the count-only rewrite, or None
_extract_count_query(sql) ==
    LET count_sql == StripGroupByFrom(StripLimits(StripOrderBy(CountProjection(sql))), 1)
    IN  IF StartsWith(Upper(count_sql), "SELECT") THEN Some(count_sql) ELSE None

(***************************************************************************)
(* generate_chart_query                                                    *)
(***************************************************************************)
\* generate_chart_query(question, original_sql, row_count) given the outcome of
\* the completion call: the aggregation SQL, or None.  No repair is applied.
generate_chart_query(reply) ==
    IF reply.kind # "text" THEN None
    ELSE LET agg_sql == StripFences(reply.text)
         IN  IF IsSelectOrWith(agg_sql) THEN Some(agg_sql) ELSE None

(***************************************************************************)
(* ChatResponse and chat_endpoint                                          *)
(***************************************************************************)
JBool(b) == [t |-> "bool", v |-> b]

\* whether the keyword argument k of ChatResponse(**d), when given, has one of
\* the types the field accepts
FieldOk(d, k, types) == ~Has(d, k) \/ d[k].t \in types

\* ChatResponse(**d): the validated envelope with the defaults of lines 51-58
\* filled in, or the validation error.  Keys that are no field are ignored.
ChatResponse(d) ==
    IF /\ Has(d, "text") /\ d["text"].t = "str"
       /\ FieldOk(d, "visualization", {"str"})
       /\ FieldOk(d, "data", {"list"})
       /\ FieldOk(d, "columns", {"list"})
       /\ FieldOk(d, "sql", {"str", "null"})
       /\ FieldOk(d, "row_count", {"int"})
       /\ FieldOk(d, "chart_config", {"dict", "null"})
       /\ FieldOk(d, "error", {"bool"})
    THEN Ok([text |-> d["text"].v,
             visualization |-> IF Has(d, "visualization") THEN d["visualization"].v
                               ELSE "none",
             data |-> IF Has(d, "data") THEN d["data"].v ELSE <<>>,
             columns |-> IF Has(d, "columns") THEN d["columns"].v ELSE <<>>,
             sql |-> IF Has(d, "sql") /\ d["sql"].t = "str" THEN Some(d["sql"].v)
                     ELSE None,
             row_count |-> IF Has(d, "row_count") THEN d["row_count"].v ELSE 0,
             chart_config |-> IF Has(d, "chart_config") /\ d["chart_config"].t = "dict"
                              THEN Some(d["chart_config"].v)
                              ELSE None,
             error |-> IF Has(d, "error") THEN d["error"].v ELSE FALSE])
    ELSE Fault("validation error for ChatResponse")

\* what the endpoint hands back: a response body, or an HTTP fault
Envelope(body) == [kind |-> "envelope", status |-> 200, body |-> body]

HttpFault(status, detail) == [kind |-> "fault", status |-> status, body |-> detail]

\* lines 76-78 without the except clause of lines 79-83
chat_endpoint_unguarded(chat_result) ==
    LET built == IF chat_result.ok THEN ChatResponse(chat_result.value) ELSE chat_result
    IN  IF built.ok THEN Envelope(built.value)
        ELSE HttpFault(500, built.err)

\* lines 76-83: chat_result is the outcome of chat(message)
chat_endpoint_try(chat_result) ==
    LET built == IF chat_result.ok THEN ChatResponse(chat_result.value) ELSE chat_result
    IN  IF built.ok THEN Envelope(built.value)
        ELSE Envelope(ChatResponse([text |-> JStr("Eroare interna: " \o built.err),
                                    error |-> JBool(TRUE)]).value)

(***************************************************************************)
(* chat: the dicts of its early returns and its branch conditions          *)
(***************************************************************************)
\* lines 615-619
GenerationErrorResult(sql_error) ==
    [text |-> JStr("Nu am putut genera interogarea SQL: " \o sql_error),
     visualization |-> JStr("none"),
     error |-> JBool(TRUE)]

\* lines 624-629
ExecutionErrorResult(sql, exec_error) ==
    [text |-> JStr("Eroare la executarea interogarii: " \o exec_error),
     visualization |-> JStr("none"),
     sql |-> JStr(sql),
     error |-> JBool(TRUE)]

\* lines 633-640
NoResultsResult(sql, columns) ==
    [text |-> JStr("Nu am gasit rezultate pentru aceasta interogare."),
     visualization |-> JStr("none"),
     sql |-> JStr(sql),
     data |-> JList(<<>>),
     columns |-> JList(columns),
     row_count |-> JInt(0)]

\* chat without the early return of lines 614-619
GenerationNeverFails(sql_error) == FALSE

\* line 614: if sql_error
GenerationFailed(sql_error) == sql_error # None /\ sql_error[1] # ""

\* line 623: if exec_error
ExecutionFailed(exec_error) == exec_error # None /\ exec_error[1] # ""

\* line 644: the number of primary rows from which the aggregation is attempted
AggregationThreshold == 150

\* the comparison of line 644 without its boundary
NeedsAggregationAbove(total_count) == total_count > AggregationThreshold

\* line 644 without its condition
NeedsAggregationAlways(total_count) == TRUE

\* line 644
NeedsAggregation(total_count) == total_count >= AggregationThreshold

\* lines 649-652 without the assignment of line 652
TrueTotalCapped(count_results, total_count) == total_count

\* lines 649-652: the total after the count query returned count_results
TrueTotal(count_results, total_count) ==
    IF Len(count_results) = 1 /\ IsNumber(FirstValue(count_results[1]))
    THEN FirstValue(count_results[1]).v
    ELSE total_count

\* line 658 without its test of agg_results
UseAggregatedOnNoError(agg_results, agg_error) == ~ExecutionFailed(agg_error)

\* line 658 without any test
UseAggregatedAlways(agg_results, agg_error) == TRUE

\* line 658: if not agg_error and agg_results
UseAggregated(agg_results, agg_error) == ~ExecutionFailed(agg_error) /\ Len(agg_results) > 0

(***************************************************************************)
(* execute_query and the analytical store.  The store answers a query with *)
(* an error or with a description (the column names) and tuples.           *)
(***************************************************************************)
StoreError(msg) == [kind |-> "error", msg |-> msg, description |-> <<>>, tuples |-> <<>>]

StoreRows(description, tuples) ==
    [kind |-> "rows", msg |-> "", description |-> description, tuples |-> tuples]

\* dict(zip(columns, row))
ZipRow(columns, row) == [i \in 1..Min(Len(columns), Len(row)) |-> <<columns[i], row[i]>>]

\* lines 114-124, with the connection at hand: (data, columns, error)
execute_query(answer) ==
    IF answer.kind = "error"
    THEN [rows |-> <<>>, columns |-> <<>>, error |-> Some(answer.msg)]
    ELSE [rows |-> [i \in 1..Len(answer.tuples) |->
                      ZipRow(answer.description, answer.tuples[i])],
          columns |-> answer.description,
          error |-> None]

\* the value of (results, columns, exec_error) before any query has run
NotExecuted == [rows |-> <<>>, columns |-> <<>>, error |-> None]

(***************************************************************************)
(* The environment of a request: messages, completions, store answers.     *)
(***************************************************************************)
\* how far above the row cap the store answers of the model go
MaxOverCap == 1

Messages == <<"", "  ", "Ce reclamatii are raionul Canapele?">>

\* outcomes of the completion call of generate_sql
SqlReplies ==
    << Raised("503 UNAVAILABLE"),
       Reply("Nu pot genera aceasta interogare."),
       Reply("SELECT nr_reclamatie, magazin, observatii FROM complaints WHERE raion = 'Canapele'"),
       Reply("SELECT raion, COUNT(*) AS total FROM complaints GROUP BY raion"),
       Reply(Fence \o "sql\nSELECT raion, furnizor LIMIT 200\n" \o Fence),
       Reply("WITH t AS (SELECT raion, furnizor FROM complaints) SELECT * FROM t") >>

\* outcomes of the completion call of generate_chart_query
ChartReplies ==
    << Raised("429 RESOURCE_EXHAUSTED"),
       Reply("Nu pot agrega."),
       Reply("SELECT raion, COUNT(*) AS total FROM complaints GROUP BY raion ORDER BY total DESC LIMIT 12"),
       Reply("SELECT magazin, COUNT(*) AS numar GROUP BY magazin LIMIT 12") >>

\* The columns a query of the model yields, by its projection.
StoreDescription(sql) ==
    LET low == Lower(sql)
    IN  IF Contains(low, "observatii") THEN <<"nr_reclamatie", "magazin", "observatii">>
        ELSE IF Contains(low, "as total") THEN <<"raion", "total">>
        ELSE IF Contains(low, "as numar") THEN <<"magazin", "numar">>
        ELSE <<"raion", "furnizor">>

\* the value of column c in the i-th tuple of an answer
StoreValue(c, i) ==
    CASE c = "nr_reclamatie" -> JInt(97000 + i)
      [] c = "magazin" -> IF i % 3 = 0 THEN JNull ELSE JStr("Militari")
      [] c = "observatii" -> IF i % 2 = 0 THEN JStr("") ELSE JStr("lovit\nla colt")
      [] c = "total" -> JInt(1000 - i)
      [] c = "numar" -> JInt(500 - i)
      [] OTHER -> JStr(c \o ToString(i))

StoreTuples(description, n) ==
    [i \in 1..n |-> [k \in 1..Len(description) |-> StoreValue(description[k], i)]]

\* the value of the LIMIT that ends the text, or None
TrailingLimit(sql) ==
    LET s == RStripCh(Strip(sql), ";")
        at == {i \in LimitPositions(s) : LimitEnd(s, i) = Len(s)}
    IN  IF at = {} THEN None ELSE Some(LimitValue(s, CHOOSE i \in at : TRUE))

\* numbers of rows the store may hold for a query
RowCounts == {0, 1, 2, 16, 61} \cup ((RowCap - 1)..(RowCap + MaxOverCap))

\* The answers the store may give to a query: an error, or as many tuples as
\* it holds, up to the LIMIT that ends the query.
StoreAnswers(sql, counts) ==
    LET lim == TrailingLimit(sql)
        ns == {n \in counts : lim = None \/ n <= lim[1]}
    IN  {StoreError("Binder Error")}
          \cup {StoreRows(StoreDescription(sql), StoreTuples(StoreDescription(sql), n)) : n \in ns}

\* answers to the count-only rewrite: besides an error and the true total, the
\* shapes the guard of lines 649-651 tells apart
CountAnswers ==
    << StoreError("Parser Error"),
       StoreRows(<<"total">>, << <<JInt(312)>> >>),
       StoreRows(<<"total">>, <<>>),
       StoreRows(<<"total">>, << <<JInt(200)>>, <<JInt(112)>> >>),
       StoreRows(<<"total">>, << <<JStr("312")>> >>) >>

\* outcomes of the completion call of format_response
InventedRow == << <<"raion", JStr("Inventat")>>, <<"total", JInt(1)>> >>

FormatReplies ==
    << FRaise("504 DEADLINE_EXCEEDED"),
       FNone,
       FJson(JDict([text |-> JStr("Situatia pe raioane."),
                    visualization |-> JStr("bar_chart"),
                    chart_config |-> JDict([x |-> JStr("raion"), y |-> JStr("total")])])),
       FJson(JDict([text |-> JStr("Reclamatii: 97001, 97002."),
                    visualization |-> JStr("none")])),
       FJson(JDict([text |-> JStr("Vezi tabelul."), visualization |-> JStr("table")])),
       FJson(JDict([visualization |-> JStr("none")])),
       FJson(JDict([text |-> JStr("Am \\\"calculat\\\" totalul."),
                    visualization |-> JStr("pie_chart"),
                    data |-> JList(<<InventedRow>>),
                    columns |-> JList(<<"raion", "total">>),
                    sql |-> JStr("SELECT 1"),
                    row_count |-> JInt(999)])),
       FJson(JList(<<>>)),
       FJson(JDict([text |-> JStr("Fara grafic."), visualization |-> JNull])),
       FJson(JDict([text |-> JInt(5), visualization |-> JStr("none")])),
       FEmbedded([text |-> JStr("Raspuns."), visualization |-> JStr("line_chart")]),
       FTextField("Raspuns partial"),
       FProse("Nu am putut formata."),
       FBlank,
       FJson(JDict([text |-> JStr("Harta pe magazine."),
                    visualization |-> JStr("heatmap")])) >>

(***************************************************************************)
(* One request through chat_endpoint and chat.                             *)
(***************************************************************************)
VARIABLES
    valid_order,    \* the order in which this process iterates VALID_COLUMNS
    pc,             \* the position of the request in chat_endpoint / chat
    message,        \* request.message
    sql,            \* sql of chat
    sql_error,      \* sql_error of chat
    primary,        \* (results, columns, exec_error) of the primary query
    total_count,    \* total_count of chat
    count,          \* what execute_query returned for the count-only rewrite
    agg_sql,        \* agg_sql of chat
    agg,            \* (agg_results, agg_columns, agg_error)
    fmt_args,       \* the arguments of the call of format_response
    fmt_reply,      \* the outcome of the completion call of format_response
    result,         \* the outcome of chat(request.message)
    response,       \* what the endpoint handed back
    responses,      \* how many times the endpoint handed something back
    calls,          \* how many times each callee has been called
    executed,       \* the queries handed to execute_query, in order
    c_pc,           \* corrector runs: position
    c_raw,          \* corrector runs: the raw completion
    c_out,          \* corrector runs: (sql, error) of generate_sql
    c_again,        \* corrector runs: the repairs applied to c_out
    _connection,    \* database.py: the global _connection
    connects,       \* database.py: how many connections duckdb.connect has returned
    t_pc,           \* database.py: the position of each calling thread
    t_sql,          \* database.py: the SQL each thread passed to execute_query
    t_new,          \* database.py: what duckdb.connect returned to each thread
    t_con,          \* database.py: con of each thread, what get_connection returned
    t_out,          \* database.py: the outcome of execute_query for each thread
    f_pc,           \* formatter runs: position
    f_results,      \* formatter runs: results
    f_columns,      \* formatter runs: columns
    f_reply,        \* formatter runs: the outcome of the completion call
    f_out,          \* formatter runs: the dict format_response returned
    f_guess,        \* formatter runs: what _guess_visualization returned
    e_pc,           \* ingest_fast.py: position in embed_batch_with_retry
    batch_data,     \* ingest_fast.py: the batch (its number of texts, batch_num)
    max_retries,    \* ingest_fast.py: max_retries of embed_batch_with_retry
    attempt,        \* ingest_fast.py: attempt of the retry loop
    e_log,          \* ingest_fast.py: how each pass through the try block ended
    e_slept,        \* ingest_fast.py: the arguments of time.sleep, in order
    e_out           \* ingest_fast.py: what embed_batch_with_retry returned

vars == <<valid_order, pc, message, sql, sql_error, primary, total_count, count,
          agg_sql, agg,
          fmt_args, fmt_reply, result, response, responses, calls, executed,
          c_pc, c_raw, c_out, c_again,
          _connection, connects, t_pc, t_sql, t_new, t_con, t_out,
          f_pc, f_results, f_columns, f_reply, f_out, f_guess,
          e_pc, batch_data, max_retries, attempt, e_log, e_slept, e_out>>

chat_vars == <<sql, sql_error, primary, total_count, count, agg_sql, agg, fmt_args,
              fmt_reply>>

corrector_vars == <<c_pc, c_raw, c_out, c_again>>

store_vars == <<_connection, connects, t_pc, t_sql, t_new, t_con, t_out>>

formatter_vars == <<f_pc, f_results, f_columns, f_reply, f_out, f_guess>>

embed_vars == <<e_pc, batch_data, max_retries, attempt, e_log, e_slept, e_out>>

Pending == [ok |-> FALSE, value |-> JNull, err |-> "pending"]

NoResponse == [kind |-> "none", status |-> 0, body |-> ""]

NoFormat == [called |-> FALSE, origin |-> "none", sql |-> "", results |-> <<>>,
             columns |-> <<>>, total_count |-> 0]

FormatCall(origin, q, r, total) ==
    [called |-> TRUE, origin |-> origin, sql |-> q, results |-> r.rows,
     columns |-> r.columns, total_count |-> total]

NoCalls == [completion |-> 0, generate_sql |-> 0, execute_query |-> 0,
            extract_count |-> 0, generate_chart_query |-> 0, format_response |-> 0]

Called(c, names) == [k \in DOMAIN c |-> IF k \in names THEN c[k] + 1 ELSE c[k]]

\* the state of a process that has started and has no request at hand
IdleRequest ==
    /\ pc = "idle"
    /\ message = ""
    /\ sql = ""
    /\ sql_error = None
    /\ primary = NotExecuted
    /\ count = NotExecuted
    /\ total_count = 0
    /\ agg_sql = None
    /\ agg = NotExecuted
    /\ fmt_args = NoFormat
    /\ fmt_reply = FNone
    /\ result = Pending
    /\ response = NoResponse
    /\ responses = 0
    /\ calls = NoCalls
    /\ executed = <<>>

\* the threads of the process that call into database.py
MaxCallers == 2

Callers == 1..MaxCallers

\* no corrector run, no thread in database.py, no formatter run
CorrectorOff ==
    /\ c_pc = "off"
    /\ c_raw = ""
    /\ c_out = <<"", None>>
    /\ c_again = ""

\* database.py line 16, and no thread has called yet
StoreIdle(at) ==
    /\ _connection = None
    /\ connects = 0
    /\ t_pc = [t \in Callers |-> at]
    /\ t_sql = [t \in Callers |-> ""]
    /\ t_new = [t \in Callers |-> 0]
    /\ t_con = [t \in Callers |-> None]
    /\ t_out = [t \in Callers |-> Pending]

FormatterIdle(at) ==
    /\ f_pc = at
    /\ f_out = <<>>
    /\ f_guess = ""

FormatterOff ==
    /\ FormatterIdle("off")
    /\ f_results = <<>>
    /\ f_columns = <<>>
    /\ f_reply = FNone

\* no batch is being embedded
EmbedIdle(at) ==
    /\ e_pc = at
    /\ attempt = 0
    /\ e_log = <<>>
    /\ e_slept = <<>>
    /\ e_out = None

EmbedOff ==
    /\ EmbedIdle("off")
    /\ batch_data = [count |-> 0, batch_num |-> 0]
    /\ max_retries = 0

Init ==
    /\ valid_order \in ColumnOrders
    /\ IdleRequest
    /\ CorrectorOff
    /\ StoreIdle("off")
    /\ FormatterOff
    /\ EmbedOff

\* main.py lines 67-74: a request arrives
Receive ==
    /\ pc = "idle"
    /\ \E i \in 1..Len(Messages) :
         /\ message' = Messages[i]
         /\ IF Strip(Messages[i]) = ""
            THEN /\ response' = HttpFault(400, "Message cannot be empty")
                 /\ responses' = responses + 1
                 /\ pc' = "done"
            ELSE /\ pc' = "generate"
                 /\ UNCHANGED <<response, responses>>
    /\ UNCHANGED <<embed_vars, valid_order, chat_vars, result, calls, executed, corrector_vars, store_vars,
                   formatter_vars>>

\* sql_agent.py lines 613-619
GenerateSql ==
    /\ pc = "generate"
    /\ \E i \in 1..Len(SqlReplies) :
         LET out == generate_sql(SqlReplies[i], valid_order)
         IN  /\ sql' = out[1]
             /\ sql_error' = out[2]
             /\ IF GenerationFailed(out[2])
                THEN /\ result' = Ok(GenerationErrorResult(out[2][1]))
                     /\ pc' = "respond"
                ELSE /\ pc' = "execute"
                     /\ UNCHANGED result
    /\ calls' = Called(calls, {"completion", "generate_sql"})
    /\ UNCHANGED <<embed_vars, valid_order, count, message, primary, total_count, agg_sql, agg, fmt_args,
                   fmt_reply, response, responses, executed, corrector_vars, store_vars,
                   formatter_vars>>

\* sql_agent.py lines 622-644
ExecutePrimary ==
    /\ pc = "execute"
    /\ \E answer \in StoreAnswers(sql, RowCounts) :
         LET r == execute_query(answer)
         IN  /\ primary' = r
             /\ total_count' = Len(r.rows)
             /\ executed' = Append(executed, [origin |-> "primary", sql |-> sql])
             /\ IF ExecutionFailed(r.error)
                THEN /\ result' = Ok(ExecutionErrorResult(sql, r.error[1]))
                     /\ pc' = "respond"
                     /\ UNCHANGED fmt_args
                ELSE IF Len(r.rows) = 0
                THEN /\ result' = Ok(NoResultsResult(sql, r.columns))
                     /\ pc' = "respond"
                     /\ UNCHANGED fmt_args
                ELSE IF NeedsAggregation(Len(r.rows))
                THEN /\ pc' = "count"
                     /\ UNCHANGED <<result, fmt_args>>
                ELSE /\ pc' = "format"
                     /\ fmt_args' = FormatCall("primary", sql, r, Len(r.rows))
                     /\ UNCHANGED result
    /\ calls' = Called(calls, {"execute_query"})
    /\ UNCHANGED <<embed_vars, valid_order, count, message, sql, sql_error, agg_sql, agg, fmt_reply,
                   response, responses, corrector_vars, store_vars,
                   formatter_vars>>

\* sql_agent.py lines 646-652
CountRewrite ==
    /\ pc = "count"
    /\ LET count_sql == _extract_count_query(sql)
       IN  IF count_sql # None
           THEN \E i \in 1..Len(CountAnswers) :
                  /\ total_count' = TrueTotal(execute_query(CountAnswers[i]).rows, total_count)
                  /\ calls' = Called(calls, {"extract_count", "execute_query"})
                  /\ executed' = Append(executed, [origin |-> "count", sql |-> count_sql[1]])
                  /\ count' = execute_query(CountAnswers[i])
           ELSE /\ calls' = Called(calls, {"extract_count"})
                /\ UNCHANGED <<total_count, executed, count>>
    /\ pc' = "chart_query"
    /\ UNCHANGED <<embed_vars, valid_order, message, sql, sql_error, primary, agg_sql, agg, fmt_args,
                   fmt_reply, result, response, responses, corrector_vars, store_vars,
                   formatter_vars>>

\* sql_agent.py lines 655-656, and 666 when there is no aggregated query
GenerateChartQuery ==
    /\ pc = "chart_query"
    /\ \E i \in 1..Len(ChartReplies) :
         LET q == generate_chart_query(ChartReplies[i])
         IN  /\ agg_sql' = q
             /\ IF q # None
                THEN /\ pc' = "execute_agg"
                     /\ UNCHANGED fmt_args
                ELSE /\ pc' = "format"
                     /\ fmt_args' = FormatCall("primary", sql, primary, total_count)
    /\ calls' = Called(calls, {"completion", "generate_chart_query"})
    /\ UNCHANGED <<embed_vars, valid_order, count, message, sql, sql_error, primary, total_count, agg,
                   fmt_reply, result, response, responses, executed, corrector_vars, store_vars,
                   formatter_vars>>

\* sql_agent.py lines 657-666
ExecuteAgg ==
    /\ pc = "execute_agg"
    /\ \E answer \in StoreAnswers(agg_sql[1], RowCounts) :
         LET r == execute_query(answer)
         IN  /\ agg' = r
             /\ executed' = Append(executed, [origin |-> "aggregated", sql |-> agg_sql[1]])
             /\ fmt_args' = IF UseAggregated(r.rows, r.error)
                            THEN FormatCall("aggregated", agg_sql[1], r, total_count)
                            ELSE FormatCall("primary", sql, primary, total_count)
    /\ pc' = "format"
    /\ calls' = Called(calls, {"execute_query"})
    /\ UNCHANGED <<embed_vars, valid_order, count, message, sql, sql_error, primary, total_count, agg_sql,
                   fmt_reply, result, response, responses, corrector_vars, store_vars,
                   formatter_vars>>

\* sql_agent.py lines 660-663 and 666: the call of format_response
Format ==
    /\ pc = "format"
    /\ \E i \in 1..Len(FormatReplies) :
         /\ fmt_reply' = FormatReplies[i]
         /\ result' = Ok(format_response(fmt_args.sql, fmt_args.results, fmt_args.columns,
                                         FormatReplies[i]))
    /\ pc' = "respond"
    /\ calls' = Called(calls, {"completion", "format_response"})
    /\ UNCHANGED <<embed_vars, valid_order, count, message, sql, sql_error, primary, total_count, agg_sql,
                   agg, fmt_args, response, responses, executed, corrector_vars, store_vars,
                   formatter_vars>>

\* main.py lines 76-83
Respond ==
    /\ pc = "respond"
    /\ response' = chat_endpoint_try(result)
    /\ responses' = responses + 1
    /\ pc' = "done"
    /\ UNCHANGED <<embed_vars, valid_order, message, chat_vars, result, calls, executed,
                   corrector_vars, store_vars,
                   formatter_vars>>

Next ==
    \/ Receive
    \/ GenerateSql
    \/ ExecutePrimary
    \/ CountRewrite
    \/ GenerateChartQuery
    \/ ExecuteAgg
    \/ Format
    \/ Respond

Spec == Init /\ [][Next]_vars

(***************************************************************************)
(* The validator/corrector on its own: generate_sql applied to a raw       *)
(* completion, and the repairs applied once more to what it returned.      *)
(***************************************************************************)
Heads ==
    << "SELECT raion",
       "SELECT nr_reclamatie, magazin",
       "select furn, COUNT(*) AS total",
       "SELECT *",
       "WITH t AS (SELECT 1) SELECT raion",
       "Nu pot raspunde cu SELECT" >>

Froms == <<"", " FROM complaints", " FROM (SELECT * FROM complaints LIMIT 200)">>

Wheres == <<"", " WHERE raion = 'Canapele'">>

Tails ==
    << "",
       " ORDER BY raion DESC",
       " ORDER BY data_reclamatie descriere",
       " GROUP BY raion" >>

Limits == <<"", " LIMIT 5", " LIMIT 150", " LIMIT 500">>

Ends == <<"", ";">>

RawCompletions ==
    {Heads[h] \o Froms[f] \o Wheres[w] \o Tails[t] \o Limits[l] \o Ends[e] :
        h \in 1..Len(Heads), f \in 1..Len(Froms), w \in 1..Len(Wheres),
        t \in 1..Len(Tails), l \in 1..Len(Limits), e \in 1..Len(Ends)}

\* completions inside code fences, and texts that only resemble a query
FencedCompletions ==
    { Fence \o "sql\nSELECT raion, furn WHERE cod = 5\n" \o Fence,
      Fence \o "\nwith t AS (SELECT 1) SELECT * FROM t\n" \o Fence,
      Fence \o "sql\nNu pot genera interogarea.\n" \o Fence,
      "Interogarea este: " \o Fence \o "sql\nSELECT raion FROM complaints\n" \o Fence,
      "  Select raion  ",
      "EXPLAIN SELECT raion FROM complaints",
      "" }

\* completions that use FROM inside an expression only
ExtractCompletions ==
    { "SELECT EXTRACT(YEAR FROM data_reclamatie) AS an, COUNT(*) AS total GROUP BY an",
      "SELECT raion, EXTRACT(MONTH FROM data_reclamatie) AS luna WHERE raion = 'Canapele'" }

\* completions that sort by several keys or by a function call
SortCompletions ==
    { "SELECT raion, furnizor FROM complaints ORDER BY raion, furnizor DESC",
      "SELECT raion, COUNT(*) AS total FROM complaints GROUP BY raion ORDER BY COUNT(*) DESC LIMIT 10" }

RawReplies ==
    {Reply(t) : t \in RawCompletions \cup FencedCompletions \cup ExtractCompletions
                         \cup SortCompletions}
      \cup {Raised("503 UNAVAILABLE"), NoText}

InitCorrector ==
    /\ valid_order \in ColumnOrders
    /\ IdleRequest
    /\ c_pc = "raw"
    /\ c_raw \in RawReplies
    /\ c_out = <<"", None>>
    /\ c_again = ""
    /\ StoreIdle("off")
    /\ FormatterOff
    /\ EmbedOff

\* generate_sql on the completion
Correct ==
    /\ c_pc = "raw"
    /\ c_out' = generate_sql(c_raw, valid_order)
    /\ c_pc' = "corrected"
    /\ UNCHANGED <<embed_vars, valid_order, pc, message, chat_vars, result, response, responses,
                   calls, executed, c_raw, c_again, store_vars, formatter_vars>>

\* the repairs of lines 232-291 on the SQL that generate_sql returned
CorrectAgain ==
    /\ c_pc = "corrected"
    /\ ~GenerationFailed(c_out[2])
    /\ c_again' = CorrectSql(c_out[1], valid_order)
    /\ c_pc' = "again"
    /\ UNCHANGED <<embed_vars, valid_order, pc, message, chat_vars, result, response, responses,
                   calls, executed, c_raw, c_out, store_vars, formatter_vars>>

NextCorrector ==
    \/ Correct
    \/ CorrectAgain

SpecCorrector == InitCorrector /\ [][NextCorrector]_vars

(***************************************************************************)
(* database.py on its own: threads of one process call execute_query.  The *)
(* module takes no lock, so a thread may be preempted between any two      *)
(* lines of get_connection.                                                *)
(***************************************************************************)
\* the SQL the threads pass
StoreQueries ==
    << "SELECT raion, furnizor FROM complaints LIMIT 150",
       "SELECT raion, COUNT(*) AS total FROM complaint GROUP BY raion" >>

\* how many rows the store holds for them
StoreRowCounts == {0, 1, 2}

\* what duckdb.connect(str(DB_PATH)) raises when the file cannot be opened
ConnectError == "IO Error: Could not set lock on file"

InitStore ==
    /\ valid_order = ValidColumnsListed
    /\ IdleRequest
    /\ CorrectorOff
    /\ StoreIdle("ready")
    /\ FormatterOff
    /\ EmbedOff

\* line 108: a thread calls execute_query(sql), for the first time or again
CallExecuteQuery ==
    \E t \in Callers :
        /\ t_pc[t] \in {"ready", "returned", "raised"}
        /\ \E i \in 1..Len(StoreQueries) : t_sql' = [t_sql EXCEPT ![t] = StoreQueries[i]]
        /\ t_pc' = [t_pc EXCEPT ![t] = "line22"]
        /\ t_new' = [t_new EXCEPT ![t] = 0]
        /\ t_con' = [t_con EXCEPT ![t] = None]
        /\ t_out' = [t_out EXCEPT ![t] = Pending]
        /\ UNCHANGED <<_connection, connects>>
        /\ UNCHANGED <<embed_vars, valid_order, pc, message, chat_vars, result, response, responses,
                       calls, executed, corrector_vars, formatter_vars>>

\* lines 113 and 22: if _connection is None
GetConnectionTest ==
    \E t \in Callers :
        /\ t_pc[t] = "line22"
        /\ t_pc' = [t_pc EXCEPT ![t] = IF _connection = None THEN "line23" ELSE "line24"]
        /\ UNCHANGED <<_connection, connects, t_sql, t_new, t_con, t_out>>
        /\ UNCHANGED <<embed_vars, valid_order, pc, message, chat_vars, result, response, responses,
                       calls, executed, corrector_vars, formatter_vars>>

\* line 23, the call: duckdb.connect returns a new connection or raises, and
\* the exception leaves get_connection and execute_query (line 113 is outside
\* the try)
GetConnectionConnect ==
    \E t \in Callers :
        /\ t_pc[t] = "line23"
        /\ \/ /\ connects' = connects + 1
              /\ t_new' = [t_new EXCEPT ![t] = connects + 1]
              /\ t_pc' = [t_pc EXCEPT ![t] = "line23_store"]
              /\ UNCHANGED t_out
           \/ /\ t_out' = [t_out EXCEPT ![t] = Fault(ConnectError)]
              /\ t_pc' = [t_pc EXCEPT ![t] = "raised"]
              /\ UNCHANGED <<connects, t_new>>
        /\ UNCHANGED <<_connection, t_sql, t_con>>
        /\ UNCHANGED <<embed_vars, valid_order, pc, message, chat_vars, result, response, responses,
                       calls, executed, corrector_vars, formatter_vars>>

\* line 23, the assignment to the global
GetConnectionAssign ==
    \E t \in Callers :
        /\ t_pc[t] = "line23_store"
        /\ _connection' = Some(t_new[t])
        /\ t_pc' = [t_pc EXCEPT ![t] = "line24"]
        /\ UNCHANGED <<connects, t_sql, t_new, t_con, t_out>>
        /\ UNCHANGED <<embed_vars, valid_order, pc, message, chat_vars, result, response, responses,
                       calls, executed, corrector_vars, formatter_vars>>

\* line 24: return _connection
GetConnectionReturn ==
    \E t \in Callers :
        /\ t_pc[t] = "line24"
        /\ t_con' = [t_con EXCEPT ![t] = _connection]
        /\ t_pc' = [t_pc EXCEPT ![t] = "try"]
        /\ UNCHANGED <<_connection, connects, t_sql, t_new, t_out>>
        /\ UNCHANGED <<embed_vars, valid_order, pc, message, chat_vars, result, response, responses,
                       calls, executed, corrector_vars, formatter_vars>>

\* lines 114-124: the try block and its except clause
ExecuteQueryTry ==
    \E t \in Callers :
        /\ t_pc[t] = "try"
        /\ \E answer \in StoreAnswers(t_sql[t], StoreRowCounts) :
             t_out' = [t_out EXCEPT ![t] = Ok(execute_query(answer))]
        /\ t_pc' = [t_pc EXCEPT ![t] = "returned"]
        /\ UNCHANGED <<_connection, connects, t_sql, t_new, t_con>>
        /\ UNCHANGED <<embed_vars, valid_order, pc, message, chat_vars, result, response, responses,
                       calls, executed, corrector_vars, formatter_vars>>

NextStore ==
    \/ CallExecuteQuery
    \/ GetConnectionTest
    \/ GetConnectionConnect
    \/ GetConnectionAssign
    \/ GetConnectionReturn
    \/ ExecuteQueryTry

SpecStore == InitStore /\ [][NextStore]_vars

(***************************************************************************)
(* format_response and _guess_visualization on their own, over result sets *)
(* of several column classes and sizes.                                    *)
(***************************************************************************)
\* the columns of the result sets
ResultColumns ==
    << <<"nr_reclamatie", "observatii">>,
       <<"nr_reclamatie">>,
       <<"nr_reclamatie", "magazin", "observatii">>,
       <<"pm", "numar">>,
       <<"nr_reclamatie", "raion">>,
       <<"raion", "total">>,
       <<"luna", "total">>,
       <<"raion", "furnizor">>,
       <<"raion">>,
       <<"magazin", "data_reclamatie">> >>

\* their numbers of rows, around the thresholds 1, 2, 6, 8, 15 and 60
ResultSizes == {0, 1, 2, 3, 7, 9, 15, 16, 60, 61}

\* the list of dicts execute_query builds for n tuples of these columns
ResultSet(columns, n) ==
    [i \in 1..n |-> ZipRow(columns, StoreTuples(columns, n)[i])]

\* the sql argument of format_response
FormattedQuery == "SELECT * FROM complaints LIMIT 150"

InitFormatter ==
    /\ valid_order = ValidColumnsListed
    /\ IdleRequest
    /\ CorrectorOff
    /\ StoreIdle("off")
    /\ FormatterIdle("ready")
    /\ EmbedOff
    /\ \E c \in 1..Len(ResultColumns), n \in ResultSizes :
         /\ f_columns = ResultColumns[c]
         /\ f_results = ResultSet(ResultColumns[c], n)
    /\ \E i \in 1..Len(FormatReplies) : f_reply = FormatReplies[i]

\* format_response(question, sql, results, columns)
FormatResponse ==
    /\ f_pc = "ready"
    /\ Len(f_out) = 0
    /\ f_out' = <<format_response(FormattedQuery, f_results, f_columns, f_reply)>>
    /\ UNCHANGED <<f_pc, f_results, f_columns, f_reply, f_guess>>
    /\ UNCHANGED <<embed_vars, valid_order, pc, message, chat_vars, result, response, responses,
                   calls, executed, corrector_vars, store_vars>>

\* _guess_visualization(results, columns)
GuessVisualization ==
    /\ f_pc = "ready"
    /\ f_guess = ""
    /\ f_guess' = _guess_visualization(f_results, f_columns)
    /\ UNCHANGED <<f_pc, f_results, f_columns, f_reply, f_out>>
    /\ UNCHANGED <<embed_vars, valid_order, pc, message, chat_vars, result, response, responses,
                   calls, executed, corrector_vars, store_vars>>

NextFormatter ==
    \/ FormatResponse
    \/ GuessVisualization

SpecFormatter == InitFormatter /\ [][NextFormatter]_vars

(***************************************************************************)
(* ingest_fast.py: embed_batch_with_retry, one call of it in a worker of   *)
(* the ThreadPoolExecutor                                                  *)
(***************************************************************************)
\* line 142: the default of max_retries
DefaultMaxRetries == 3

\* the largest max_retries a call is made with
MaxMaxRetries == 4

\* len(texts) of the batches
BatchCounts == {1, 50}

\* batch_num of the batches
BatchNums == {1, 2}

\* str(e) of the exceptions embed_documents and collection.add raise
RateLimitErrors ==
    { "429 Too Many Requests",
      "Quota exceeded: RESOURCE_EXHAUSTED" }

LongError ==
    "Embedding request failed: the embedding service did not answer within the deadline of 60 seconds, giving up."

OtherErrors ==
    { "500 Internal Server Error",
      "Expected IDs to be unique",
      LongError }

\* a pass through the try block of lines 147-158 that ended without an
\* exception, or with the exception whose str is msg
PassOk == [ok |-> TRUE, msg |-> ""]

PassRaised(msg) == [ok |-> FALSE, msg |-> msg]

\* a mutation of the test of line 162: every exception is retried
RateLimitedAlways(error_msg) == TRUE

\* line 162
RateLimited(error_msg) ==
    Contains(error_msg, "429") \/ Contains(error_msg, "RESOURCE_EXHAUSTED")

\* line 158
EmbedSuccess(batch) ==
    [success |-> TRUE, batch |-> batch.batch_num, count |-> batch.count]

\* lines 168 and 170
EmbedFailure(batch, error) ==
    [success |-> FALSE, batch |-> batch.batch_num, error |-> error]

InitEmbed ==
    /\ valid_order = ValidColumnsListed
    /\ IdleRequest
    /\ CorrectorOff
    /\ StoreIdle("off")
    /\ FormatterOff
    /\ EmbedIdle("loop")
    /\ batch_data \in [count : BatchCounts, batch_num : BatchNums]
    /\ max_retries \in 0..MaxMaxRetries

\* lines 146-158: a pass through the try block raises nothing
AttemptSucceeds ==
    /\ e_pc = "loop"
    /\ attempt < max_retries
    /\ e_log' = Append(e_log, PassOk)
    /\ e_out' = Some(EmbedSuccess(batch_data))
    /\ e_pc' = "returned"
    /\ UNCHANGED <<batch_data, max_retries, attempt, e_slept>>
    /\ UNCHANGED <<valid_order, pc, message, chat_vars, result, response, responses,
                   calls, executed, corrector_vars, store_vars, formatter_vars>>

\* lines 160-165: the pass raises a rate-limit error; sleep, then the next pass
AttemptRateLimited ==
    /\ e_pc = "loop"
    /\ attempt < max_retries
    /\ \E error_msg \in RateLimitErrors \cup OtherErrors :
         /\ RateLimited(error_msg)
         /\ e_log' = Append(e_log, PassRaised(error_msg))
    /\ e_slept' = Append(e_slept, (attempt + 1) * 2)
    /\ attempt' = attempt + 1
    /\ UNCHANGED <<e_pc, batch_data, max_retries, e_out>>
    /\ UNCHANGED <<valid_order, pc, message, chat_vars, result, response, responses,
                   calls, executed, corrector_vars, store_vars, formatter_vars>>

\* lines 160-168: the pass raises any other error
AttemptFails ==
    /\ e_pc = "loop"
    /\ attempt < max_retries
    /\ \E error_msg \in RateLimitErrors \cup OtherErrors :
         /\ ~RateLimited(error_msg)
         /\ e_log' = Append(e_log, PassRaised(error_msg))
         /\ e_out' = Some(EmbedFailure(batch_data, Prefix(error_msg, 100)))
    /\ e_pc' = "returned"
    /\ UNCHANGED <<batch_data, max_retries, attempt, e_slept>>
    /\ UNCHANGED <<valid_order, pc, message, chat_vars, result, response, responses,
                   calls, executed, corrector_vars, store_vars, formatter_vars>>

\* line 170: range(max_retries) is exhausted
RetriesExhausted ==
    /\ e_pc = "loop"
    /\ attempt >= max_retries
    /\ e_out' = Some(EmbedFailure(batch_data, "Max retries exceeded (rate limit)"))
    /\ e_pc' = "returned"
    /\ UNCHANGED <<batch_data, max_retries, attempt, e_log, e_slept>>
    /\ UNCHANGED <<valid_order, pc, message, chat_vars, result, response, responses,
                   calls, executed, corrector_vars, store_vars, formatter_vars>>

NextEmbed ==
    \/ AttemptSucceeds
    \/ AttemptRateLimited
    \/ AttemptFails
    \/ RetriesExhausted

SpecEmbed == InitEmbed /\ [][NextEmbed]_vars

\* the worker thread keeps running: embed_documents, collection.add and
\* time.sleep return or raise, and the next statement is executed
SpecEmbedFair == SpecEmbed /\ WF_vars(NextEmbed)

(***************************************************************************)
(* Properties of a request (checked under Spec)                            *)
(***************************************************************************)
\* the request has been answered
Answered == pc = "done"

\* chat has returned or raised
ChatReturned == pc \in {"respond", "done"}

\* a fault inside chat, or while ChatResponse(**result) is built
PipelineFault == ~result.ok \/ ~ChatResponse(result.value).ok

\* what a response says when it is an envelope with error=true and a text
IsErrorEnvelope(r) == r.kind = "envelope" /\ r.body.error = TRUE /\ r.body.text # ""

\* C1, as amended: a request whose message is not blank (not empty once
\* whitespace is stripped) is answered exactly once, with a response envelope
\* and never with a fault; nothing is handed back before that; and when chat,
\* or the construction of the envelope from its result, raises, the envelope
\* has error=true and a non-empty text.
C1_EnvelopeForNonBlankMessage ==
    /\ responses <= 1
    /\ (~Answered => responses = 0)
    /\ (Answered /\ Strip(message) # "") =>
         /\ responses = 1
         /\ response.kind = "envelope"
         /\ (PipelineFault => IsErrorEnvelope(response))

\* C1 witness: the formatter's dict failed validation (no text, or a null
\* visualization) and the request was answered with the error envelope
C1_Witness ==
    /\ Answered
    /\ Strip(message) # ""
    /\ result.ok
    /\ ~ChatResponse(result.value).ok
    /\ IsErrorEnvelope(response)
    /\ StartsWith(response.body.text, "Eroare interna: ")

\* C1 as stated: every request whose message is non-empty is answered with a
\* response envelope.  A message of spaces is non-empty and is answered with
\* the HTTP 400 fault.
C1_EnvelopeForNonEmptyMessage ==
    (Answered /\ message # "") => response.kind = "envelope"

\* C2: when SQL generation fails, chat returns a dict with error=true and
\* neither the executor nor the formatter is ever called; when the execution of
\* the primary SQL fails, chat returns a dict with error=true that carries the
\* SQL, and the count rewrite, the aggregated-query generator and the formatter
\* are never called.
C2_ErrorsShortCircuit ==
    /\ (sql_error # None) =>
         /\ calls.execute_query = 0
         /\ calls.extract_count = 0
         /\ calls.generate_chart_query = 0
         /\ calls.format_response = 0
         /\ executed = <<>>
         /\ ChatReturned
         /\ result.ok
         /\ Same(Get(result.value, "error"), JBool(TRUE))
         /\ (Answered => IsErrorEnvelope(response))
    /\ (primary.error # None) =>
         /\ calls.execute_query = 1
         /\ calls.extract_count = 0
         /\ calls.generate_chart_query = 0
         /\ calls.format_response = 0
         /\ ChatReturned
         /\ result.ok
         /\ Same(Get(result.value, "error"), JBool(TRUE))
         /\ Same(Get(result.value, "sql"), JStr(sql))
         /\ (Answered => IsErrorEnvelope(response) /\ response.body.sql = Some(sql))

\* C2 witness: a request answered after the store rejected the primary SQL
C2_Witness ==
    /\ Answered
    /\ primary.error # None
    /\ IsErrorEnvelope(response)
    /\ response.body.sql = Some(sql)

AggregatedSucceeded == agg_sql # None /\ agg.error = None /\ Len(agg.rows) > 0

\* the query whose rows were formatted, and those rows and columns
FormattedSql == IF AggregatedSucceeded THEN agg_sql[1] ELSE sql

FormattedResult == IF AggregatedSucceeded THEN agg ELSE primary

\* the completion of format_response returned a JSON object with the key k
ReplyHas(k) ==
    /\ fmt_reply.kind \in {"json", "embedded"}
    /\ fmt_reply.value.t = "dict"
    /\ Has(fmt_reply.value.v, k)

\* the value x is the list q of the formatted query, or the empty list
FromFormatted(x, q) == Same(x, JList(q)) \/ Same(x, JList(<<>>))

\* C4: in the dict that chat returns on the formatting path, sql is the
\* aggregated SQL exactly when the aggregated query ran without error and
\* returned at least one row, and the primary SQL otherwise; row_count is the
\* number of rows of that query; data and columns, unless the completion's own
\* JSON carried them, are those of that query or empty; and the envelope built
\* from the dict says the same.
C4_SqlIsTheFormattedQuery ==
    (ChatReturned /\ fmt_args.called) =>
        /\ fmt_args.origin = (IF AggregatedSucceeded THEN "aggregated" ELSE "primary")
        /\ fmt_args.sql = FormattedSql
        /\ fmt_args.results = FormattedResult.rows
        /\ fmt_args.columns = FormattedResult.columns
        /\ Same(Get(result.value, "sql"), JStr(FormattedSql))
        /\ Same(Get(result.value, "row_count"), JInt(Len(FormattedResult.rows)))
        /\ ReplyHas("data") \/ FromFormatted(Get(result.value, "data"), FormattedResult.rows)
        /\ ReplyHas("columns")
             \/ FromFormatted(Get(result.value, "columns"), FormattedResult.columns)
        /\ (Answered /\ ~PipelineFault) =>
              /\ response.body.sql = Some(FormattedSql)
              /\ response.body.row_count = Len(FormattedResult.rows)
              /\ ReplyHas("data") \/ response.body.data \in {FormattedResult.rows, <<>>}

\* C4 witness: a request answered from the rows of the aggregated query
C4_Witness ==
    /\ Answered
    /\ AggregatedSucceeded
    /\ response.kind = "envelope"
    /\ response.body.sql = agg_sql
    /\ response.body.data = agg.rows
    /\ response.body.columns = agg.columns

\* the aggregation was attempted and did not succeed
AggregationFailedSoft ==
    /\ pc \in {"format", "respond", "done"}
    /\ calls.generate_chart_query = 1
    /\ \/ agg_sql = None
       \/ agg.error # None
       \/ Len(agg.rows) = 0

\* C5: when generate_chart_query returns nothing, or the aggregated query
\* fails or returns no row, format_response is called with the primary SQL, the
\* primary rows and the primary columns, and chat returns a dict without
\* error=true.
C5_FallbackFailsSoft ==
    AggregationFailedSoft =>
        /\ fmt_args.called
        /\ fmt_args.origin = "primary"
        /\ fmt_args.sql = sql
        /\ fmt_args.results = primary.rows
        /\ fmt_args.columns = primary.columns
        /\ Len(fmt_args.results) >= 150
        /\ ChatReturned =>
             /\ result.ok
             /\ ~Same(Get(result.value, "error"), JBool(TRUE))
             /\ Same(Get(result.value, "sql"), JStr(sql))

\* C5 witness: a request answered from the primary rows after the aggregated
\* query was rejected by the store
C5_Witness ==
    /\ Answered
    /\ agg_sql # None
    /\ agg.error # None
    /\ response.kind = "envelope"
    /\ response.body.sql = Some(sql)
    /\ response.body.data = primary.rows

\* the formatter cleared data for an identifier/free-text list (lines 490-524)
DataCleared ==
    /\ fmt_args.called
    /\ IsDetail(fmt_args.columns)
    /\ Len(fmt_args.results) <= 60
    /\ response.body.visualization = "none"
    /\ response.body.data = <<>>

\* C6 as stated: in every envelope, row_count is the number of entries of
\* data, unless the formatter cleared data for an identifier/free-text list,
\* and then row_count is the number of rows of the result that was formatted.
C6_RowCountIsLenData ==
    (Answered /\ response.kind = "envelope") =>
        \/ response.body.row_count = Len(response.body.data)
        \/ DataCleared /\ response.body.row_count = Len(fmt_args.results)

\* the try block of format_response raised
FormatFaulted ==
    ~FormatTry(fmt_args.sql, fmt_args.results, fmt_args.columns, fmt_reply).ok

\* C7: for every outcome of the completion call, format_response returns a
\* dict whose sql is the SQL it was given and whose row_count is the number of
\* result rows; when a fault occurs inside it, the dict has visualization none
\* and the raw results and columns as data and columns.
C7_FormatterAlwaysReturns ==
    (ChatReturned /\ fmt_args.called) =>
        /\ result.ok
        /\ Same(Get(result.value, "sql"), JStr(fmt_args.sql))
        /\ Same(Get(result.value, "row_count"), JInt(Len(fmt_args.results)))
        /\ (FormatFaulted \/ fmt_reply.kind \in {"raise", "none"}) =>
             /\ Same(Get(result.value, "visualization"), JStr("none"))
             /\ Same(Get(result.value, "data"), JList(fmt_args.results))
             /\ Same(Get(result.value, "columns"), JList(fmt_args.columns))

\* C7 witness: the completion returned JSON that is not an object, and the
\* request was answered with the raw rows
C7_Witness ==
    /\ Answered
    /\ fmt_args.called
    /\ fmt_reply.kind = "json"
    /\ fmt_reply.value.t = "list"
    /\ response.kind = "envelope"
    /\ response.body.visualization = "none"
    /\ response.body.data = fmt_args.results
    /\ response.body.row_count = Len(fmt_args.results)
    /\ response.body.row_count > 0

\* C8 as stated: every generated query handed to the executor, primary or
\* aggregated, has a FROM that names the complaints table.
C8_ExecutedQueriesNameTheTable ==
    \A i \in 1..Len(executed) :
        executed[i].origin \in {"primary", "aggregated"} =>
            Contains(Upper(executed[i].sql), "FROM COMPLAINTS")

(***************************************************************************)
(* Properties of the validator/corrector (checked under SpecCorrector)     *)
(***************************************************************************)
\* generate_sql accepted the completion
Accepted == c_pc \in {"corrected", "again"} /\ c_out[2] = None

\* C9 as stated: in every SQL that generate_sql returns without an aggregate
\* function and without GROUP BY, every LIMIT has a value of at least 150.
C9_EveryLimitAtLeastCap ==
    (Accepted /\ \A fn \in AggregateMarkers : ~Contains(Upper(c_out[1]), fn)) =>
        \A i \in LimitPositions(c_out[1]) : LimitValue(c_out[1], i) >= 150

\* C10 as stated: the repairs applied to the SQL that generate_sql returned
\* give that SQL again.
C10_CorrectorIdempotent ==
    c_pc = "again" => c_again = c_out[1]

(***************************************************************************)
(* Properties of database.py (checked under SpecStore)                     *)
(***************************************************************************)
\* execute_query has returned to thread t, or raised
Left(t) == t_pc[t] \in {"returned", "raised"}

\* C11 as stated: execute_query never raises; on a failure it returns no rows,
\* no columns and a message; on success the error is None and the columns are
\* non-empty whenever the rows are.
C11_ExecuteQueryTotal ==
    \A t \in Callers :
        Left(t) =>
            /\ t_out[t].ok
            /\ t_out[t].value.error # None =>
                 /\ t_out[t].value.rows = <<>>
                 /\ t_out[t].value.columns = <<>>
                 /\ t_out[t].value.error[1] # ""
            /\ (t_out[t].value.error = None /\ t_out[t].value.rows # <<>>) =>
                 t_out[t].value.columns # <<>>

\* C20 as stated: duckdb.connect returns a connection at most once in the
\* process, and all threads that got a connection from get_connection got the
\* same one.
C20_ConnectedOnce ==
    /\ connects <= 1
    /\ \A t, u \in Callers :
         (t_con[t] # None /\ t_con[u] # None) => t_con[t] = t_con[u]

(***************************************************************************)
(* Properties of the formatter (checked under SpecFormatter)               *)
(***************************************************************************)
\* format_response has returned
Formatted == Len(f_out) = 1

\* the visualization of the returned dict
FormattedVisualization == Get(f_out[1], "visualization")

\* every column is of identifier/free-text class
AllDetail(columns) == ColsLower(columns) \subseteq detail_cols

ChartKinds == {"bar_chart", "line_chart", "pie_chart"}

\* C12: when the result has at least one column whose name is in the detail
\* set, the dict format_response returns has visualization none or table,
\* whatever the completion replied.
C12_DetailNeverCharted ==
    (Formatted /\ IsDetail(f_columns)) =>
        \/ IsStr(FormattedVisualization, "none")
        \/ IsStr(FormattedVisualization, "table")

\* C12 happens: a reply that chose a chart kind for a result with a detail
\* column was formatted, and the returned visualization is none
C12_Witness ==
    /\ Formatted
    /\ IsDetail(f_columns)
    /\ Len(f_results) > 0
    /\ f_reply.kind \in {"json", "embedded"}
    /\ f_reply.value.t = "dict"
    /\ \E k \in ChartKinds : IsStr(Get(f_reply.value.v, "visualization"), k)
    /\ IsStr(FormattedVisualization, "none")

\* C13 as stated, for the result sets chat formats (at least one row): when
\* every column is in the detail set, the returned visualization is none, for
\* every reply and every row count.
C13_AllDetailIsNone ==
    (Formatted /\ AllDetail(f_columns) /\ Len(f_results) > 0) =>
        IsStr(FormattedVisualization, "none")

\* C14 as stated, for the replies that carry text: when every column is in the
\* detail set and there are at most 60 rows, the returned text contains str()
\* of the first value of every row.
C14_PrimaryValuesInText ==
    (/\ Formatted
     /\ f_reply.kind \notin {"raise", "none"}
     /\ AllDetail(f_columns)
     /\ Len(f_results) <= 60) =>
        \A i \in 1..Len(f_results) :
            /\ Has(f_out[1], "text")
            /\ f_out[1]["text"].t = "str"
            /\ Contains(f_out[1]["text"].v, PyStr(FirstValue(f_results[i])))

\* C15 as stated: _guess_visualization returns none for every non-empty result
\* that has a column in the detail set.
C15_GuessNoneForDetail ==
    (f_guess # "" /\ Len(f_results) > 0 /\ IsDetail(f_columns)) => f_guess = "none"

\* `parsed` when line 489 is reached: the reply parsed, its text cleaned and
\* its visualization overridden, or the fault raised before that line
ParsedAtLine489 ==
    LET parsed == ParseFormatReply(f_reply, f_results, f_columns)
        cleaned == IF ~parsed.ok THEN parsed
                   ELSE IF parsed.value.t # "dict" THEN Fault("not a dict")
                   ELSE CleanText(parsed.value.v)
    IN  IF ~cleaned.ok THEN cleaned
        ELSE Ok(OverrideVisualization(cleaned.value, f_results, f_columns))

\* the test of line 490 passes and line 494 finds a value that is not in the text
FindsMissingValue ==
    /\ ParsedAtLine489.ok
    /\ IsDetail(f_columns)
    /\ Len(f_results) <= 60
    /\ IsStr(Get(ParsedAtLine489.value, "visualization"), "none")
    /\ LET p == ParsedAtLine489.value
           text == IF Has(p, "text") THEN p["text"].v ELSE ""
       IN  \E i \in 1..Len(f_results) : ~Contains(text, PyStr(FirstValue(f_results[i])))

\* the lines of text after its last header of a rebuilt list
BulletsOf(text, n) ==
    LET header == "**Lista detaliata (" \o ToString(n) \o " inregistrari):**\n"
        at == {i \in 1..Len(text) : MatchAt(text, i, header)}
        from == (CHOOSE i \in at : \A j \in at : j <= i) + Len(header)
        rest == Suffix(text, from)
        breaks == {i \in 1..Len(rest) : MatchAt(rest, i, "\n* ")}
    IN  IF at = {} THEN [found |-> FALSE, count |-> 0, rest |-> ""]
        ELSE [found |-> TRUE, count |-> Cardinality(breaks) + 1, rest |-> rest]

\* C23 as stated: when the formatter finds a first value missing from the text,
\* the returned text ends with a list of one bullet per row, in the order of
\* the rows, data and columns are empty and row_count is the number of rows.
C23_RebuiltList ==
    (Formatted /\ FindsMissingValue) =>
        /\ Has(f_out[1], "text")
        /\ f_out[1]["text"].t = "str"
        /\ LET b == BulletsOf(f_out[1]["text"].v, Len(f_results))
           IN  /\ b.found
               /\ b.count = Len(f_results)
               /\ EndsWith(f_out[1]["text"].v, DetailList(f_results))
        /\ Same(f_out[1]["data"], JList(<<>>))
        /\ Same(f_out[1]["columns"], JList(<<>>))
        /\ Same(f_out[1]["row_count"], JInt(Len(f_results)))

\* the completion replied with a JSON object that has a text and whose
\* visualization is the string kind
ReplyChose(kind) ==
    /\ f_reply.kind \in {"json", "embedded"}
    /\ f_reply.value.t = "dict"
    /\ IsStr(Get(f_reply.value.v, "visualization"), kind)
    /\ Get(f_reply.value.v, "text").t = "str"

\* C24: a dict returned for more than 15 rows never has visualization table;
\* when the reply chose table for more than 15 rows the returned visualization
\* is what _guess_visualization returns for the result (none when that is a
\* chart kind and a column is in the detail set); and _guess_visualization
\* never returns table for more than 15 rows.
C24_NoTableAbove15 ==
    /\ (Formatted /\ Len(f_results) > 15) => ~IsStr(FormattedVisualization, "table")
    /\ (Formatted /\ Len(f_results) > 15 /\ ReplyChose("table")) =>
          LET verdict == _guess_visualization(f_results, f_columns)
          IN  IsStr(FormattedVisualization,
                    IF IsDetail(f_columns) THEN "none" ELSE verdict)
    /\ (f_guess # "" /\ Len(f_results) > 15) => f_guess # "table"

\* C24 happens: the reply chose table for 16 rows without detail columns and
\* the returned visualization is the classifier's
C24_Witness ==
    /\ Formatted
    /\ Len(f_results) = 16
    /\ ~IsDetail(f_columns)
    /\ ReplyChose("table")
    /\ f_guess # ""
    /\ IsStr(FormattedVisualization, f_guess)

\* the decision list of the classifier for results without detail columns
DecisionList(results, columns) ==
    LET names == ColsLower(columns)
        numeric == names \cap numeric_cols # {}
        temporal == names \cap time_cols # {}
        second_is_text == Len(columns) >= 2 /\ ~IsNumber(RowGet(results[1], columns[2]))
    IN  IF Len(results) = 0 THEN "none"
        ELSE IF Len(results) = 1 /\ Len(columns) <= 2 THEN "none"
        ELSE IF ~numeric /\ second_is_text
             THEN (IF Len(results) <= 15 THEN "table" ELSE "none")
        ELSE IF temporal /\ Len(results) > 2 THEN "bar_chart"
        ELSE IF Len(columns) = 2 /\ Len(results) <= 8
             THEN (IF Len(results) <= 6 THEN "pie_chart" ELSE "bar_chart")
        ELSE "bar_chart"

\* no column has a numeric name and no value of the first row is a number
NoNumericColumn(results, columns) ==
    /\ ColsLower(columns) \cap numeric_cols = {}
    /\ Len(results) > 0 =>
         \A k \in 1..Len(columns) : ~IsNumber(RowGet(results[1], columns[k]))

\* C25 as stated: for a result without detail columns _guess_visualization
\* returns what the decision list gives, never a chart kind when the result has
\* no numeric column, and never line_chart.
C25_ClassifierIsDecisionList ==
    (f_guess # "" /\ ~IsDetail(f_columns)) =>
        /\ f_guess = DecisionList(f_results, f_columns)
        /\ NoNumericColumn(f_results, f_columns) => f_guess \notin ChartKinds
        /\ f_guess # "line_chart"

\* line 486 finds a detail column and a visualization other than none and
\* table, and line 487 writes none
ForcedToNone ==
    LET parsed == ParseFormatReply(f_reply, f_results, f_columns)
        cleaned == IF ~parsed.ok THEN parsed
                   ELSE IF parsed.value.t # "dict" THEN Fault("not a dict")
                   ELSE CleanText(parsed.value.v)
        chosen == Get(cleaned.value, "visualization")
        at486 == IF IsStr(chosen, "table") /\ Len(f_results) > 15
                 THEN JStr(_guess_visualization(f_results, f_columns))
                 ELSE chosen
    IN  /\ cleaned.ok
        /\ IsDetail(f_columns)
        /\ ~IsStr(at486, "none")
        /\ ~IsStr(at486, "table")

\* C28 as stated: whenever format_response forces the visualization to none
\* because a column is in the detail set, _guess_visualization returns none for
\* the same results and columns.
C28_ClassifierAgreesWithForcing ==
    (Formatted /\ f_guess # "" /\ ForcedToNone) => f_guess = "none"

\* C29 as stated, for the result sets chat formats (at least one row): in every
\* dict format_response returns, data is the result rows or empty, columns is
\* the result columns or empty, sql is the executed SQL and row_count the
\* number of result rows, whatever the reply contained.
C29_ReplyCannotAuthorData ==
    (Formatted /\ Len(f_results) > 0) =>
        /\ \/ Same(f_out[1]["data"], JList(f_results))
           \/ Same(f_out[1]["data"], JList(<<>>))
        /\ \/ Same(f_out[1]["columns"], JList(f_columns))
           \/ Same(f_out[1]["columns"], JList(<<>>))
        /\ Same(f_out[1]["sql"], JStr(FormattedQuery))
        /\ Same(f_out[1]["row_count"], JInt(Len(f_results)))

(***************************************************************************)
(* Further properties of a request (checked under Spec)                    *)
(***************************************************************************)
\* the five kinds of the response vocabulary
Visualizations == {"none", "table", "bar_chart", "line_chart", "pie_chart"}

\* C16 as stated: the visualization of every envelope the endpoint returns is
\* one of none, table, bar_chart, line_chart, pie_chart.
C16_VisualizationInVocabulary ==
    (Answered /\ response.kind = "envelope") =>
        response.body.visualization \in Visualizations

\* C17 as stated: the data of every envelope the endpoint returns has at most
\* 150 rows.
C17_DataWithinRowCap ==
    (Answered /\ response.kind = "envelope") => Len(response.body.data) <= RowCap

\* the completion calls a request must have made once it is answered
CompletionCallsDue ==
    IF calls.generate_sql = 0 THEN 0
    ELSE IF ~fmt_args.called THEN 1
    ELSE IF Len(primary.rows) >= 150 THEN 3
    ELSE 2

\* C19, as amended: a request calls the completion service at most once from
\* each of generate_sql, generate_chart_query and format_response and from
\* nowhere else; once answered it has made no call when the message was blank,
\* one call when generation failed, execution failed or the result was empty,
\* and otherwise two calls, plus one when the primary result had at least 150
\* rows.
C19_CompletionCallsPerRequest ==
    /\ calls.generate_sql <= 1
    /\ calls.generate_chart_query <= 1
    /\ calls.format_response <= 1
    /\ calls.completion =
         calls.generate_sql + calls.generate_chart_query + calls.format_response
    /\ Answered => calls.completion = CompletionCallsDue

\* C19 happens: a request that went through the aggregation fallback was
\* answered after three completion calls
C19_Witness ==
    /\ Answered
    /\ fmt_args.called
    /\ calls.generate_chart_query = 1
    /\ calls.completion = 3

\* C19 as stated: every request answered with an envelope has made two
\* completion calls, plus one when the aggregation fallback was taken.
C19_TwoCallsEveryRequest ==
    (Answered /\ response.kind = "envelope") =>
        calls.completion = 2 + calls.generate_chart_query

\* the count-only rewrite was run
CountRan == \E i \in 1..Len(executed) : executed[i].origin = "count"

\* it ran without error and returned one row whose first value is a number
CountUsable ==
    /\ CountRan
    /\ count.error = None
    /\ Len(count.rows) = 1
    /\ count.rows[1][1][2].t = "int"

\* the total the request must report
TotalDue ==
    IF Len(primary.rows) >= 150 /\ CountUsable
    THEN count.rows[1][1][2].v
    ELSE Len(primary.rows)

\* C21: once the count step is over, the total handed to generate_chart_query
\* and to format_response is the value returned by the count-only rewrite when
\* the primary result has at least 150 rows and the rewrite was derived, ran
\* without error and returned one row with a number first; otherwise it is the
\* number of primary rows.  The rewrite is run only for 150 rows or more.
C21_ReportedTotal ==
    /\ CountRan => Len(primary.rows) >= 150
    /\ (pc = "count" \/ _extract_count_query(sql) = None) => ~CountRan
    /\ pc \in {"chart_query", "execute_agg"} => total_count = TotalDue
    /\ fmt_args.called => fmt_args.total_count = TotalDue

\* C21 happens: a request with 150 primary rows was answered, and the formatter
\* was handed a total above the row cap taken from the count
C21_Witness ==
    /\ Answered
    /\ fmt_args.called
    /\ Len(primary.rows) = 150
    /\ CountUsable
    /\ fmt_args.total_count > RowCap

(***************************************************************************)
(* Further properties of the corrector (checked under SpecCorrector)       *)
(***************************************************************************)
\* text begins with the keyword SELECT or WITH, in any letter case
BeginsSelectOrWith(text) == MatchAtCI(text, 1, "SELECT") \/ MatchAtCI(text, 1, "WITH")

\* the completion call raised, or its reply has no text, or the text without
\* its code fences does not begin with SELECT or WITH
Rejectable(reply) ==
    \/ reply.kind \in {"raise", "none"}
    \/ ~BeginsSelectOrWith(StripFences(reply.text))

\* C18: generate_sql returns an error, with an empty SQL string, exactly when
\* the completion call raises (or yields no text) or the fence-stripped text
\* does not begin with SELECT or WITH; otherwise it returns no error and the
\* repaired SQL still begins with SELECT or WITH.
C18_ErrorIffNotSelectOrWith ==
    c_pc \in {"corrected", "again"} =>
        /\ (c_out[2] # None) <=> Rejectable(c_raw)
        /\ c_out[2] # None => c_out[1] = ""
        /\ c_out[2] = None => BeginsSelectOrWith(c_out[1])

\* C18 happens: a fenced completion was accepted and the repairs changed it
C18_Witness ==
    /\ c_pc = "corrected"
    /\ c_raw.kind = "text"
    /\ StartsWith(c_raw.text, Fence)
    /\ c_out[2] = None
    /\ c_out[1] # StripFences(c_raw.text)
    /\ BeginsSelectOrWith(c_out[1])

\* the keyword K stands at position i of text as a word of its own
KeywordAt(text, i, K) ==
    /\ MatchAtCI(text, i, K)
    /\ i = 1 \/ ~IsWordCh(Ch(text, i - 1))
    /\ i + Len(K) > Len(text) \/ ~IsWordCh(Ch(text, i + Len(K)))

\* how many parentheses are open at position i of text
Depth(text, i) ==
    Cardinality({j \in 1..(i - 1) : Ch(text, j) = "("})
      - Cardinality({j \in 1..(i - 1) : Ch(text, j) = ")"})

\* the positions of the FROM clauses of the statement itself
FromClauses(text) == {i \in 1..Len(text) : KeywordAt(text, i, "FROM") /\ Depth(text, i) = 0}

\* the positions of all FROM keywords
FromWords(text) == {i \in 1..Len(text) : KeywordAt(text, i, "FROM")}

\* the positions of the keywords WHERE, GROUP BY, ORDER BY, LIMIT
ClausePositions(text) ==
    {i \in 1..Len(text) : \E k \in 1..Len(FromKeywords) : KeywordAt(text, i, FromKeywords[k])}

\* C22 as stated: when the accepted completion has no FROM clause, the SQL
\* returned has 'FROM complaints ' immediately before the first WHERE, GROUP BY,
\* ORDER BY or LIMIT of the text, or ' FROM complaints' at its end when it has
\* none of them; when the completion has a FROM clause, no FROM is added.
C22_FromInjected ==
    (c_pc = "corrected" /\ c_raw.kind = "text" /\ c_out[2] = None) =>
        LET raw == StripFences(c_raw.text)
            out == c_out[1]
            at == ClausePositions(out)
        IN  IF FromClauses(raw) = {}
            THEN IF at # {}
                 THEN MatchAt(out, (CHOOSE i \in at : \A j \in at : i <= j) - 16,
                              "FROM complaints ")
                 ELSE EndsWith(out, " FROM complaints")
            ELSE Cardinality(FromWords(out)) = Cardinality(FromWords(raw))

\* C26 as stated: under every iteration order of VALID_COLUMNS generate_sql
\* returns, for the same completion, what it returned in this run.
C26_SameSqlForEveryOrder ==
    c_pc = "corrected" =>
        \A order \in ColumnOrders : generate_sql(c_raw, order) = c_out

\* the positions of the word K in text
WordsOf(text, K) == {i \in 1..Len(text) : KeywordAt(text, i, K)}

\* C27 as stated: when the accepted completion has an ORDER BY clause, every
\* DESC of the completion is still DESC in the SQL returned: the SQL has no
\* fewer DESC keywords and no more words 'descriere' than the completion.
C27_DescSurvives ==
    (Accepted /\ c_raw.kind = "text" /\ WordsOf(c_raw.text, "ORDER BY") # {}) =>
        /\ Cardinality(WordsOf(c_out[1], "DESC")) >= Cardinality(WordsOf(c_raw.text, "DESC"))
        /\ Cardinality(WordsOf(c_out[1], "DESCRIERE"))
             <= Cardinality(WordsOf(c_raw.text, "DESCRIERE"))

(***************************************************************************)
(* Properties of the retry loop (checked under SpecEmbedFair)              *)
(***************************************************************************)
\* embed_batch_with_retry has returned
EmbedReturned == e_pc = "returned"

\* the i-th pass ended with an error that carries a rate-limit marker
RateLimitedPass(i) ==
    /\ ~e_log[i].ok
    /\ \/ Contains(e_log[i].msg, "429")
       \/ Contains(e_log[i].msg, "RESOURCE_EXHAUSTED")

\* what holds of the passes made so far and of the returned dict
RetryLaw ==
    /\ Len(e_log) <= max_retries
    /\ \A i \in 1..(Len(e_log) - 1) : RateLimitedPass(i)
    /\ Len(e_slept) <= Len(e_log)
    /\ ~EmbedReturned => /\ e_out = None
                         /\ \A i \in 1..Len(e_log) : RateLimitedPass(i)
    /\ EmbedReturned =>
         /\ Len(e_out) = 1
         /\ e_out[1].batch = batch_data.batch_num
         /\ LET n == Len(e_log) IN
            \/ /\ n > 0
               /\ e_log[n].ok
               /\ e_out[1].success
               /\ e_out[1].count = batch_data.count
            \/ /\ n > 0
               /\ ~e_log[n].ok
               /\ ~RateLimitedPass(n)
               /\ ~e_out[1].success
               /\ e_out[1].error = SubSeq(e_log[n].msg, 1, Min(100, Len(e_log[n].msg)))
            \/ /\ n = max_retries
               /\ \A i \in 1..n : RateLimitedPass(i)
               /\ ~e_out[1].success
               /\ e_out[1].error = "Max retries exceeded (rate limit)"

\* C30: embed_batch_with_retry makes at most max_retries passes, makes another
\* pass only after a rate-limit error (429 / RESOURCE_EXHAUSTED), returns
\* failure at once on any other error, returns success on the first pass that
\* succeeds, returns the 'Max retries exceeded' failure when every pass was
\* rate-limited, and always returns.
C30_BoundedRetry == []RetryLaw /\ <>EmbedReturned

\* the default number of passes were all rate-limited and the loop gave up
C30_Witness ==
    /\ EmbedReturned
    /\ max_retries = DefaultMaxRetries
    /\ Len(e_log) = max_retries
    /\ \A i \in 1..Len(e_log) : RateLimitedPass(i)
    /\ ~e_out[1].success

====
